---- MODULE Spec2Model ----
(***************************************************************************)
(* Cross-exchange maker strategy (pkg/strategy/xmaker): the quoting loop   *)
(* (quoteWorker / updateQuote), the hedging loop (hedgeWorker / Hedge) and *)
(* the trade-collector subscriber that keeps Position and CoveredPosition. *)
(*                                                                         *)
(* Decimal values are fixed-point integers with Scale units per 1.0, so    *)
(* 1.02 is 1020 and a quantity of 2.04 is 2040.                            *)
(***************************************************************************)
EXTENDS Integers, Sequences, FiniteSets, TLC

\* ------------------------------------------------------------------------
\* fixed-point arithmetic (non-negative operands only where truncation matters)
Scale == 1000

Abs(x) == IF x < 0 THEN -x ELSE x

Sign(x) == IF x > 0 THEN 1 ELSE IF x < 0 THEN -1 ELSE 0

Min(a, b) == IF a < b THEN a ELSE b

Max(a, b) == IF a > b THEN a ELSE b

Mul(a, b) == (a * b) \div Scale

Div(a, b) == (a * Scale) \div b

\* ------------------------------------------------------------------------
\* program constants
lastPriceModifier == 1001

minGap == 1020

priceUpdateTimeout == 30

\* ------------------------------------------------------------------------
\* market metadata of the two sessions (types.Market), the same symbol on both
StepSize == Scale \div 100

MinQuantity == 1 * Scale

MinNotional == 10 * Scale

TickSize == Scale \div 100

\* ------------------------------------------------------------------------
\* bounds of the model
MaxOrders == 3

MaxTrades == 1

\* prices of the source book used by the model: at LowPrice the notional
\* thresholds bind, at HighPrice the quantity thresholds bind
LowPrice == 5 * Scale

HighPrice == 20 * Scale

Spread == Scale \div 10

\* amounts used for balances
SomeBase == 2 * Scale

SomeQuote == 30 * Scale

AmpleBase == 100 * Scale

AmpleQuote == 2000 * Scale

\* seconds that pass in one step of the clock
TimeStep == 31

\* the hedge error limiter: one token per LimiterPeriod seconds, burst 1
LimiterPeriod == 60

Sides == {"BUY", "SELL"}

Venues == {"maker", "source"}

VARIABLES
    Position,                  \* s.Position.GetBase()
    CoveredPosition,           \* s.CoveredPosition
    DisableHedge,              \* s.DisableHedge
    lastPrice,                 \* s.lastPrice
    book,                      \* s.book: [bids, asks] sequences of [Price, Volume]
    sourceBalances,            \* s.sourceSession.GetAccount(): currency -> available
    hedgeErrorLimiter,         \* s.hedgeErrorLimiter: tokens, in seconds of refill
    hedgeErrorRateReservation, \* s.hedgeErrorRateReservation
    activeMakerOrders,         \* s.activeMakerOrders: set of order records
    exchangeOrders,            \* orders resting at the venues
    tradeStore,                \* trades buffered in the collector until Process()
    nextOrderID,               \* id given to the next hedge order
    numTrades,                 \* maker fills delivered so far
    lastHedge,                 \* what the last hedge tick did
    initialUncovered,          \* Position - CoveredPosition at start
    config,                    \* the configured fields of the Strategy
    makerBalances,             \* s.makerSession.GetAccount(): currency -> available
    circuitBreakerHalted,      \* s.CircuitBreaker.IsHalted(now)
    bidPriceHeartBeat,         \* s.bidPriceHeartBeat
    askPriceHeartBeat,         \* s.askPriceHeartBeat
    lastQuote,                 \* what the last quoting pass did
    call,                      \* arguments and results of a function applied on its own
    stream,                    \* the fields of the coinbase Stream
    streamLog,                 \* what the stream handlers processed and emitted
    run,                       \* s.stopC, the quoting goroutine, the shutdown callback
    scanner                    \* the tradeRecover goroutine: its ticker and its scans

vars == <<Position, CoveredPosition, DisableHedge, lastPrice, book,
          sourceBalances, hedgeErrorLimiter, hedgeErrorRateReservation,
          activeMakerOrders, exchangeOrders, tradeStore, nextOrderID,
          numTrades, lastHedge, initialUncovered, config, makerBalances,
          circuitBreakerHalted, bidPriceHeartBeat, askPriceHeartBeat, lastQuote,
          call, stream, streamLog, run, scanner>>

\* the state of the strategy
strategyVars == <<Position, CoveredPosition, DisableHedge, lastPrice, book,
                  sourceBalances, hedgeErrorLimiter, hedgeErrorRateReservation,
                  activeMakerOrders, exchangeOrders, tradeStore, nextOrderID,
                  numTrades, lastHedge, initialUncovered, config, makerBalances,
                  circuitBreakerHalted, bidPriceHeartBeat, askPriceHeartBeat, lastQuote>>

quoteVars == <<config, makerBalances, circuitBreakerHalted, bidPriceHeartBeat,
               askPriceHeartBeat, lastQuote>>

\* ------------------------------------------------------------------------
\* balances, books, orders, trades

NoBalance == << >>

Balances(base, quote) == [c \in {"base", "quote"} |-> IF c = "base" THEN base ELSE quote]

HasBalance(b, c) == c \in DOMAIN b

PV(p, v) == [Price |-> p, Volume |-> v]

EmptyBook == [bids |-> << >>, asks |-> << >>]

BookAt(p) == [bids |-> <<PV(p, 2000), PV(p - Spread, 4000)>>,
              asks |-> <<PV(p + Spread, 2000), PV(p + 2 * Spread, 4000)>>]

CrossedBook == [bids |-> <<PV(HighPrice + Spread, 2000)>>,
                asks |-> <<PV(HighPrice, 2000)>>]

HasBestBid(b) == Len(b.bids) > 0

HasBestAsk(b) == Len(b.asks) > 0

BestBid(b) == b.bids[1]

BestAsk(b) == b.asks[1]

CopyDepth(bk, n) ==
    [bids |-> SubSeq(bk.bids, 1, Min(n, Len(bk.bids))),
     asks |-> SubSeq(bk.asks, 1, Min(n, Len(bk.asks)))]

\* an order at a venue; the id tells the live orders of a venue apart (a maker
\* order by its place in the batch, which is placed when no maker order is
\* left; a hedge order by a counter).  Every order is put into s.orderStore by
\* the orderCreateCallback that creates it, so the collector finds the order
\* of every trade of an order in exchangeOrders.
Order(id, venue, side, price, quantity) ==
    [id |-> id, venue |-> venue, side |-> side, price |-> price, quantity |-> quantity]

Trade(exchange, side, quantity) ==
    [exchange |-> exchange, side |-> side, quantity |-> quantity]

PositionChange(t) == IF t.side = "BUY" THEN t.quantity ELSE -t.quantity

\* ------------------------------------------------------------------------
\* the trade collector and its OnTrade subscriber

\* the collector folds the trade into the position, the subscriber adds the
\* position change of a source-venue trade to the covered position
FoldPosition(pos, t) == pos + PositionChange(t)

\* the subscriber does not look at the venue of the trade
OnTradeCovered_AnyVenue(cov, t) == cov + PositionChange(t)

OnTradeCovered(cov, t) ==
    IF t.exchange = "source" THEN cov + PositionChange(t) ELSE cov

RECURSIVE ProcessPosition(_, _)
ProcessPosition(pos, trades) ==
    IF trades = << >> THEN pos
    ELSE ProcessPosition(FoldPosition(pos, Head(trades)), Tail(trades))

RECURSIVE ProcessCovered(_, _)
ProcessCovered(cov, trades) ==
    IF trades = << >> THEN cov
    ELSE ProcessCovered(OnTradeCovered(cov, Head(trades)), Tail(trades))

\* ------------------------------------------------------------------------
\* Hedge: the decision part, up to the order that would be submitted

TruncateQuantity(q) == (q \div StepSize) * StepSize

AdjustQuantityByMaxAmount(quantity, currentPrice, maxAmount) ==
    LET amount == Mul(currentPrice, quantity)
    IN  IF amount < maxAmount THEN quantity
        ELSE Mul(quantity, Div(maxAmount, amount))

\* the side follows the sign of the uncovered position
HedgeSide_Same(pos) == IF pos < 0 THEN "BUY" ELSE "SELL"

HedgeSide(pos) == IF pos < 0 THEN "SELL" ELSE "BUY"

HedgePrice(side, lp, bk) ==
    IF side = "BUY"
    THEN IF HasBestAsk(bk) THEN BestAsk(bk).Price ELSE lp
    ELSE IF HasBestBid(bk) THEN BestBid(bk).Price ELSE lp

\* a sell takes the whole base balance, also when it is above the quantity
HedgeAdjust_TakesBalance(side, quantity, price, notional, bal) ==
    IF side = "BUY"
    THEN IF HasBalance(bal, "quote") /\ bal["quote"] < notional
         THEN TruncateQuantity(
                 AdjustQuantityByMaxAmount(quantity, Mul(price, lastPriceModifier), bal["quote"]))
         ELSE quantity
    ELSE IF HasBalance(bal, "base") THEN bal["base"] ELSE quantity

HedgeAdjust(side, quantity, price, notional, bal) ==
    IF side = "BUY"
    THEN IF HasBalance(bal, "quote") /\ bal["quote"] < notional
         THEN TruncateQuantity(
                 AdjustQuantityByMaxAmount(quantity, Mul(price, lastPriceModifier), bal["quote"]))
         ELSE quantity
    ELSE IF HasBalance(bal, "base") /\ bal["base"] < quantity
         THEN bal["base"]
         ELSE quantity

\* the quantity minimum taken from the notional minimum
Hedge_WrongMinimum(pos, lp, bk, bal) ==
    LET side     == HedgeSide(pos)
        price    == HedgePrice(side, lp, bk)
        notional == Mul(Abs(pos), price)
        quantity == TruncateQuantity(HedgeAdjust(side, Abs(pos), price, notional, bal))
        skip     == \/ pos = 0
                    \/ notional <= MinNotional
                    \/ notional <= Mul(MinNotional, minGap)
                    \/ quantity <= Mul(MinNotional, minGap)
    IN  [skip |-> skip, side |-> side, price |-> price,
         notional |-> notional, quantity |-> quantity]

\* pos is the negated uncovered position handed over by hedgeWorker
Hedge(pos, lp, bk, bal) ==
    LET side     == HedgeSide(pos)
        price    == HedgePrice(side, lp, bk)
        notional == Mul(Abs(pos), price)
        quantity == TruncateQuantity(HedgeAdjust(side, Abs(pos), price, notional, bal))
        skip     == \/ pos = 0
                    \/ notional <= MinNotional
                    \/ notional <= Mul(MinNotional, minGap)
                    \/ quantity <= Mul(MinQuantity, minGap)
    IN  [skip |-> skip, side |-> side, price |-> price,
         notional |-> notional, quantity |-> quantity]

\* ------------------------------------------------------------------------
\* time and the hedge error limiter (rate.NewLimiter(rate.Every(1 min), 1))

NoReservation == [set |-> FALSE, ok |-> TRUE, delay |-> 0]

\* tokens after d seconds have passed
Refill(tokens, d) == Min(LimiterPeriod, tokens + d)

\* Reserve() takes one token now, going into debt when none is there; the
\* reservation's delay is the time until the debt is refilled
ReserveTokens(tokens) == tokens - LimiterPeriod

\* no reservation is taken after a failure
Reserve_None(tokens) == NoReservation

Reserve(tokens) ==
    [set |-> TRUE, ok |-> TRUE, delay |-> Max(0, 0 - ReserveTokens(tokens))]

ElapseReservation(r, d) ==
    IF r.set THEN [r EXCEPT !.delay = Max(0, r.delay - d)] ELSE r

\* ------------------------------------------------------------------------
\* updateQuote: price aggregation, heart beats, quota, balance and exposure gates

two == 2 * Scale

One == 1 * Scale

RECURSIVE aggregateAmount(_, _, _)
\* the loop of aggregatePrice: the amount of filling q from level i on
aggregateAmount(pvs, i, q) ==
    IF i > Len(pvs) THEN 0
    ELSE IF pvs[i].Volume >= q THEN Mul(q, pvs[i].Price)
    ELSE Mul(pvs[i].Volume, pvs[i].Price) + aggregateAmount(pvs, i + 1, q - pvs[i].Volume)

\* the amount is divided by the volume of the first level
aggregatePrice_ByFirstVolume(pvs, requiredQuantity) ==
    IF Len(pvs) = 0 THEN 0
    ELSE IF pvs[1].Volume >= requiredQuantity THEN pvs[1].Price
    ELSE Div(aggregateAmount(pvs, 1, requiredQuantity), pvs[1].Volume)

\* the amount of the first level stands for the whole fill
aggregatePrice_FirstLevelAmount(pvs, requiredQuantity) ==
    IF Len(pvs) = 0 THEN 0
    ELSE IF pvs[1].Volume >= requiredQuantity THEN pvs[1].Price
    ELSE Div(Mul(pvs[1].Volume, pvs[1].Price), requiredQuantity)

aggregatePrice(pvs, requiredQuantity) ==
    IF Len(pvs) = 0 THEN 0
    ELSE IF pvs[1].Volume >= requiredQuantity THEN pvs[1].Price
    ELSE Div(aggregateAmount(pvs, 1, requiredQuantity), requiredQuantity)

\* types.PriceHeartBeat: the last best price and the seconds since it changed
NewPriceHeartBeat == [last |-> PV(0, 0), age |-> 0]

HeartBeatStale(hb, current) ==
    /\ hb.last.Price # 0
    /\ hb.last = current
    /\ hb.age > priceUpdateTimeout

HeartBeatUpdate(hb, current) ==
    IF hb.last.Price = 0 \/ hb.last # current
    THEN [last |-> current, age |-> 0]
    ELSE hb

ElapseHeartBeat(hb, d) == [hb EXCEPT !.age = Min(hb.age + d, priceUpdateTimeout + 1)]

BestBidAndAsk(bk) == HasBestBid(bk) /\ HasBestAsk(bk)

IsValid(bk) ==
    /\ Len(bk.bids) > 0
    /\ Len(bk.asks) > 0
    /\ ~(BestBid(bk).Price > BestAsk(bk).Price)

\* bbgo.QuotaTransaction: per asset the amount still available and the amount
\* locked by the layer in progress
NewQuota == [BaseAsset |-> [Available |-> 0, Locked |-> 0],
             QuoteAsset |-> [Available |-> 0, Locked |-> 0]]

QuotaAdd(q, asset, fund) == [q EXCEPT ![asset].Available = @ + fund]

CanLock(q, asset, fund) == q[asset].Available > fund

QuotaLock(q, asset, fund) ==
    IF CanLock(q, asset, fund)
    THEN [q EXCEPT ![asset].Available = @ - fund, ![asset].Locked = @ + fund]
    ELSE q

QuotaCommit(q) == [q EXCEPT !.BaseAsset.Locked = 0, !.QuoteAsset.Locked = 0]

QuotaRollback(q) ==
    [BaseAsset  |-> [Available |-> q.BaseAsset.Available + q.BaseAsset.Locked, Locked |-> 0],
     QuoteAsset |-> [Available |-> q.QuoteAsset.Available + q.QuoteAsset.Locked, Locked |-> 0]]

\* the pass goes on past the graceful cancel when it reported no error and
\* left no active order
CancelGate_ErrorIgnored(cancelErr, remaining) == remaining = {}

CancelGate(cancelErr, remaining) == ~cancelErr /\ remaining = {}

\* the pass goes on past the circuit breaker when it is not halted
BreakerGate_Ignored(halted) == TRUE

BreakerGate(halted) == ~halted

\* the heart beat updates: the ask heart beat is updated only when the bid
\* heart beat is not stale
HeartBeatGate_Ignored(bidHB, askHB, bk) == [bidStale |-> FALSE, askStale |-> FALSE]

HeartBeatGate(bidHB, askHB, bk) ==
    LET bidStale == HeartBeatStale(bidHB, BestBid(bk))
    IN  [bidStale |-> bidStale,
         askStale |-> ~bidStale /\ HeartBeatStale(askHB, BestAsk(bk))]

\* the maker account gate
MakerGate_NoMinimum(bal) ==
    LET hasBase  == HasBalance(bal, "base")
        hasQuote == HasBalance(bal, "quote")
        q1 == IF hasBase THEN QuotaAdd(NewQuota, "BaseAsset", bal["base"]) ELSE NewQuota
        q2 == IF hasQuote THEN QuotaAdd(q1, "QuoteAsset", bal["quote"]) ELSE q1
    IN  [quota |-> q2, disableMakerAsk |-> FALSE, disableMakerBid |-> FALSE]

\* the maker account gate: a side is funded when its currency has more than
\* the market minimum available
MakerGate(bal) ==
    LET hasBase  == HasBalance(bal, "base")
        hasQuote == HasBalance(bal, "quote")
        baseOk   == hasBase /\ bal["base"] > MinQuantity
        quoteOk  == hasQuote /\ bal["quote"] > MinNotional
        q1 == IF baseOk THEN QuotaAdd(NewQuota, "BaseAsset", bal["base"]) ELSE NewQuota
        q2 == IF quoteOk THEN QuotaAdd(q1, "QuoteAsset", bal["quote"]) ELSE q1
    IN  [quota |-> q2,
         disableMakerAsk |-> hasBase /\ ~baseOk,
         disableMakerBid |-> hasQuote /\ ~quoteOk]

\* the source account gate with the stopHedge reserves
HedgeReserve_IgnoresStop(available, stop, minimum) ==
    IF available > minimum
    THEN [ok |-> TRUE, fund |-> available]
    ELSE [ok |-> FALSE, fund |-> 0]

\* the amount of one source currency the pass may hedge with
HedgeReserve(available, stop, minimum) ==
    IF stop > 0
    THEN IF available > stop + minimum
         THEN [ok |-> TRUE, fund |-> available - (stop + minimum)]
         ELSE [ok |-> FALSE, fund |-> 0]
    ELSE IF available > minimum
         THEN [ok |-> TRUE, fund |-> available]
         ELSE [ok |-> FALSE, fund |-> 0]

SourceGate(bal, cfg) ==
    LET hasBase  == HasBalance(bal, "base")
        hasQuote == HasBalance(bal, "quote")
        base  == IF hasBase
                 THEN HedgeReserve(bal["base"], cfg.StopHedgeBaseBalance, MinQuantity)
                 ELSE [ok |-> TRUE, fund |-> 0]
        quote == IF hasQuote
                 THEN HedgeReserve(bal["quote"], cfg.StopHedgeQuoteBalance, MinNotional)
                 ELSE [ok |-> TRUE, fund |-> 0]
    IN  [quota |-> QuotaAdd(QuotaAdd(NewQuota, "BaseAsset", base.fund), "QuoteAsset", quote.fund),
         disableMakerBid |-> ~base.ok,
         disableMakerAsk |-> ~quote.ok]

\* the exposure gate: which side the position disables
ExposureGate(pos, maxExposure) ==
    IF maxExposure > 0
    THEN IF pos > 0 - maxExposure
         THEN [disableMakerAsk |-> TRUE, disableMakerBid |-> FALSE]
         ELSE IF pos > maxExposure
         THEN [disableMakerAsk |-> FALSE, disableMakerBid |-> TRUE]
         ELSE [disableMakerAsk |-> FALSE, disableMakerBid |-> FALSE]
    ELSE [disableMakerAsk |-> FALSE, disableMakerBid |-> FALSE]

\* ------------------------------------------------------------------------
\* updateQuote: the Bollinger band margins and the layers

NoScale == [set |-> FALSE, err |-> FALSE, quantities |-> << >>]

\* margins and pips after the band adjustment
BollMargins(cfg, bands, bestBidPrice, bestAskPrice) ==
    LET down == cfg.EnableBollBandMargin /\ bestBidPrice < bands.down
        up   == cfg.EnableBollBandMargin /\ bestAskPrice > bands.up
        downRatio == Div(bands.down, bestBidPrice)
        upRatio   == Div(bestAskPrice, bands.up)
        pips1 == IF down THEN Mul(cfg.Pips, downRatio) ELSE cfg.Pips
    IN  [askMargin |-> IF down
                       THEN cfg.AskMargin
                            + Mul(Mul(cfg.BollBandMargin, downRatio), cfg.BollBandMarginFactor)
                       ELSE cfg.AskMargin,
         bidMargin |-> IF up
                       THEN cfg.BidMargin
                            + Mul(Mul(cfg.BollBandMargin, upRatio), cfg.BollBandMarginFactor)
                       ELSE cfg.BidMargin,
         pips |-> IF up THEN Mul(pips1, upRatio) ELSE pips1]

LayerQuantity(cfg, i, quantity) ==
    IF cfg.QuantityScale.set THEN cfg.QuantityScale.quantities[i + 1] ELSE quantity

NextLayerQuantity(cfg, quantity) ==
    IF cfg.QuantityMultiplier > 0 THEN Mul(quantity, cfg.QuantityMultiplier) ELSE quantity

LayerPips(i, pips) == Mul(pips, Mul(i * Scale, TickSize))

BidLayerPrice(cfg, i, price, pvs, accumulated, margin, pips) ==
    LET reference == IF cfg.UseDepthPrice
                     THEN IF cfg.DepthQuantity > 0
                          THEN aggregatePrice(pvs, cfg.DepthQuantity)
                          ELSE aggregatePrice(pvs, accumulated)
                     ELSE price
        withMargin == Mul(reference, One - margin)
    IN  IF i > 0 /\ pips > 0 THEN withMargin - LayerPips(i, pips) ELSE withMargin

AskLayerPrice(cfg, i, price, pvs, accumulated, margin, pips) ==
    LET reference == IF cfg.UseDepthPrice
                     THEN IF cfg.DepthQuantity > 0
                          THEN aggregatePrice(pvs, cfg.DepthQuantity)
                          ELSE aggregatePrice(pvs, accumulated)
                     ELSE price
        withMargin == Mul(reference, One + margin)
    IN  IF i > 0 /\ pips > 0 THEN withMargin + LayerPips(i, pips) ELSE withMargin

SubmitOrder(side, price, quantity) == [side |-> side, price |-> price, quantity |-> quantity]

\* the bid half of layer i with the maker lock kept when the hedge lock fails
BidLayer_NoRollback(cfg, m, sourceBook, i, st) ==
    LET quantity == LayerQuantity(cfg, i, st.bidQuantity)
        acc      == st.accumulativeBidQuantity + quantity
        price    == BidLayerPrice(cfg, i, st.bidPrice, sourceBook.bids, acc, m.bidMargin, m.pips)
        ok1      == CanLock(st.makerQuota, "QuoteAsset", Mul(quantity, price))
        maker1   == QuotaLock(st.makerQuota, "QuoteAsset", Mul(quantity, price))
        ok2      == ok1 /\ CanLock(st.hedgeQuota, "BaseAsset", quantity)
        hedge1   == IF ok1 THEN QuotaLock(st.hedgeQuota, "BaseAsset", quantity) ELSE st.hedgeQuota
    IN  [st EXCEPT !.accumulativeBidQuantity = acc,
                   !.bidPrice = price,
                   !.bidPrices = Append(@, price),
                   !.submitOrders = IF ok2 THEN Append(@, SubmitOrder("BUY", price, quantity)) ELSE @,
                   !.makerQuota = QuotaCommit(maker1),
                   !.hedgeQuota = IF ok2 THEN QuotaCommit(hedge1) ELSE QuotaRollback(hedge1),
                   !.bidQuantity = NextLayerQuantity(cfg, quantity)]

\* the bid half of layer i
BidLayer(cfg, m, sourceBook, i, st) ==
    LET quantity == LayerQuantity(cfg, i, st.bidQuantity)
        acc      == st.accumulativeBidQuantity + quantity
        price    == BidLayerPrice(cfg, i, st.bidPrice, sourceBook.bids, acc, m.bidMargin, m.pips)
        ok1      == CanLock(st.makerQuota, "QuoteAsset", Mul(quantity, price))
        maker1   == QuotaLock(st.makerQuota, "QuoteAsset", Mul(quantity, price))
        ok2      == ok1 /\ CanLock(st.hedgeQuota, "BaseAsset", quantity)
        hedge1   == IF ok1 THEN QuotaLock(st.hedgeQuota, "BaseAsset", quantity) ELSE st.hedgeQuota
    IN  [st EXCEPT !.accumulativeBidQuantity = acc,
                   !.bidPrice = price,
                   !.bidPrices = Append(@, price),
                   !.submitOrders = IF ok2 THEN Append(@, SubmitOrder("BUY", price, quantity)) ELSE @,
                   !.makerQuota = IF ok2 THEN QuotaCommit(maker1) ELSE QuotaRollback(maker1),
                   !.hedgeQuota = IF ok2 THEN QuotaCommit(hedge1) ELSE QuotaRollback(hedge1),
                   !.bidQuantity = NextLayerQuantity(cfg, quantity)]

\* the ask half of layer i with the order emitted also when a lock fails
AskLayer_EmitsOnFailure(cfg, m, sourceBook, i, st) ==
    LET quantity == LayerQuantity(cfg, i, st.askQuantity)
        acc      == st.accumulativeAskQuantity + quantity
        price    == AskLayerPrice(cfg, i, st.askPrice, sourceBook.asks, acc, m.askMargin, m.pips)
        ok1      == CanLock(st.makerQuota, "BaseAsset", quantity)
        maker1   == QuotaLock(st.makerQuota, "BaseAsset", quantity)
        ok2      == ok1 /\ CanLock(st.hedgeQuota, "QuoteAsset", Mul(quantity, price))
        hedge1   == IF ok1 THEN QuotaLock(st.hedgeQuota, "QuoteAsset", Mul(quantity, price))
                    ELSE st.hedgeQuota
    IN  [st EXCEPT !.accumulativeAskQuantity = acc,
                   !.askPrice = price,
                   !.askPrices = Append(@, price),
                   !.submitOrders = Append(@, SubmitOrder("SELL", price, quantity)),
                   !.makerQuota = IF ok2 THEN QuotaCommit(maker1) ELSE QuotaRollback(maker1),
                   !.hedgeQuota = IF ok2 THEN QuotaCommit(hedge1) ELSE QuotaRollback(hedge1),
                   !.askQuantity = NextLayerQuantity(cfg, quantity)]

\* the ask half of layer i
AskLayer(cfg, m, sourceBook, i, st) ==
    LET quantity == LayerQuantity(cfg, i, st.askQuantity)
        acc      == st.accumulativeAskQuantity + quantity
        price    == AskLayerPrice(cfg, i, st.askPrice, sourceBook.asks, acc, m.askMargin, m.pips)
        ok1      == CanLock(st.makerQuota, "BaseAsset", quantity)
        maker1   == QuotaLock(st.makerQuota, "BaseAsset", quantity)
        ok2      == ok1 /\ CanLock(st.hedgeQuota, "QuoteAsset", Mul(quantity, price))
        hedge1   == IF ok1 THEN QuotaLock(st.hedgeQuota, "QuoteAsset", Mul(quantity, price))
                    ELSE st.hedgeQuota
    IN  [st EXCEPT !.accumulativeAskQuantity = acc,
                   !.askPrice = price,
                   !.askPrices = Append(@, price),
                   !.submitOrders = IF ok2 THEN Append(@, SubmitOrder("SELL", price, quantity)) ELSE @,
                   !.makerQuota = IF ok2 THEN QuotaCommit(maker1) ELSE QuotaRollback(maker1),
                   !.hedgeQuota = IF ok2 THEN QuotaCommit(hedge1) ELSE QuotaRollback(hedge1),
                   !.askQuantity = NextLayerQuantity(cfg, quantity)]

RECURSIVE Layers(_, _, _, _, _, _, _)
\* the loop over the layers from layer i on; a quantityScale error ends the pass
Layers(cfg, m, sourceBook, disableMakerBid, disableMakerAsk, i, st) ==
    IF i >= cfg.NumLayers THEN st
    ELSE IF cfg.QuantityScale.set /\ cfg.QuantityScale.err /\ ~(disableMakerBid /\ disableMakerAsk)
    THEN [st EXCEPT !.scaleError = TRUE]
    ELSE LET st1 == IF disableMakerBid THEN st ELSE BidLayer(cfg, m, sourceBook, i, st)
             st2 == IF disableMakerAsk THEN st1 ELSE AskLayer(cfg, m, sourceBook, i, st1)
         IN  Layers(cfg, m, sourceBook, disableMakerBid, disableMakerAsk, i + 1, st2)

LayersStart(cfg, bestBidPrice, bestAskPrice, makerQuota, hedgeQuota) ==
    [submitOrders |-> << >>, scaleError |-> FALSE,
     accumulativeBidQuantity |-> 0, accumulativeAskQuantity |-> 0,
     bidQuantity |-> cfg.Quantity, askQuantity |-> cfg.Quantity,
     bidPrice |-> bestBidPrice, askPrice |-> bestAskPrice,
     bidPrices |-> << >>, askPrices |-> << >>,
     makerQuota |-> makerQuota, hedgeQuota |-> hedgeQuota]

\* ------------------------------------------------------------------------
\* updateQuote: one pass of the quoting loop

DefaultConfig ==
    [MaxExposurePosition |-> 0, NumLayers |-> 1,
     Quantity |-> 1 * Scale, QuantityMultiplier |-> 0, QuantityScale |-> NoScale,
     BidMargin |-> 3, AskMargin |-> 3, Pips |-> 10 * Scale,
     UseDepthPrice |-> FALSE, DepthQuantity |-> 0,
     StopHedgeBaseBalance |-> 0, StopHedgeQuoteBalance |-> 0,
     EnableBollBandMargin |-> FALSE, BollBandMargin |-> 1, BollBandMarginFactor |-> One]

NoBands == [up |-> 0, down |-> 0]

NoQuote == [outcome |-> "none", position |-> 0, submitOrders |-> << >>, cancelled |-> {}]

FormatPrice(p) == (p \div TickSize) * TickSize

FormatOrders(orders) ==
    [k \in 1..Len(orders) |->
        SubmitOrder(orders[k].side, FormatPrice(orders[k].price),
                    TruncateQuantity(orders[k].quantity))]

MidPrice(bk) == Div(BestBid(bk).Price + BestAsk(bk).Price, two)

\* the orders a cancelled maker order set leaves at the venues: the maker venue
\* drops the cancelled maker orders
AfterCancel(orders, cancelled) == orders \ {o \in cancelled : o.venue = "maker"}

updateQuote(cancelErr, remaining, bands, formatOk, rejected) ==
    LET cancelled  == activeMakerOrders \ remaining
        passCancel == CancelGate(cancelErr, remaining)
        passHalt   == passCancel /\ BreakerGate(circuitBreakerHalted)
        passPrice  == passHalt /\ BestBidAndAsk(book)
        beats      == HeartBeatGate(bidPriceHeartBeat, askPriceHeartBeat, book)
        bidStale   == passPrice /\ beats.bidStale
        askStale   == passPrice /\ beats.askStale
        passBeat   == passPrice /\ ~bidStale /\ ~askStale
        sourceBook == CopyDepth(book, 10)
        passValid  == passBeat /\ IsValid(sourceBook)
        maker      == MakerGate(makerBalances)
        hedge      == SourceGate(sourceBalances, config)
        exposure   == ExposureGate(Position, config.MaxExposurePosition)
        disableMakerBid ==
            maker.disableMakerBid \/ hedge.disableMakerBid \/ exposure.disableMakerBid
        disableMakerAsk ==
            maker.disableMakerAsk \/ hedge.disableMakerAsk \/ exposure.disableMakerAsk
        passGates  == passValid /\ ~(disableMakerAsk /\ disableMakerBid)
        passBoll   == passGates
                      /\ ~(config.EnableBollBandMargin /\ (bands.up = 0 \/ bands.down = 0))
        m          == BollMargins(config, bands, BestBid(book).Price, BestAsk(book).Price)
        st         == Layers(config, m, sourceBook, disableMakerBid, disableMakerAsk, 0,
                             LayersStart(config, BestBid(book).Price, BestAsk(book).Price,
                                         maker.quota, hedge.quota))
        passLayers == passBoll /\ ~st.scaleError /\ Len(st.submitOrders) > 0
        passFormat == passLayers /\ formatOk
        formatted  == FormatOrders(st.submitOrders)
        created    == {Order(k, "maker", formatted[k].side,
                             formatted[k].price, formatted[k].quantity) :
                          k \in (1..Len(formatted)) \ rejected}
        outcome    == IF ~passCancel
                      THEN IF cancelErr THEN "cancelFailed" ELSE "ordersRemain"
                      ELSE IF ~passHalt THEN "halted"
                      ELSE IF ~passPrice THEN "noPrice"
                      ELSE IF ~passBeat THEN "stale"
                      ELSE IF ~passValid THEN "invalidBook"
                      ELSE IF ~passGates THEN "disabled"
                      ELSE IF ~passBoll THEN "bandZero"
                      ELSE IF st.scaleError THEN "scaleError"
                      ELSE IF ~passLayers THEN "noOrders"
                      ELSE IF ~passFormat THEN "unformatted"
                      ELSE "submitted"
    IN  /\ lastPrice' = IF passPrice THEN MidPrice(book) ELSE lastPrice
        /\ bidPriceHeartBeat' = IF passPrice /\ ~bidStale
                                THEN HeartBeatUpdate(bidPriceHeartBeat, BestBid(book))
                                ELSE bidPriceHeartBeat
        /\ askPriceHeartBeat' = IF passBeat
                                THEN HeartBeatUpdate(askPriceHeartBeat, BestAsk(book))
                                ELSE askPriceHeartBeat
        /\ activeMakerOrders' = IF passFormat THEN remaining \cup created ELSE remaining
        /\ exchangeOrders' = IF passFormat
                             THEN AfterCancel(exchangeOrders, cancelled) \cup created
                             ELSE AfterCancel(exchangeOrders, cancelled)
        /\ Position' = IF passFormat THEN ProcessPosition(Position, tradeStore) ELSE Position
        /\ CoveredPosition' = IF passFormat THEN ProcessCovered(CoveredPosition, tradeStore)
                              ELSE CoveredPosition
        /\ tradeStore' = IF passFormat THEN << >> ELSE tradeStore
        /\ lastQuote' = [outcome |-> outcome, position |-> Position,
                         submitOrders |-> IF passFormat THEN formatted ELSE << >>,
                         cancelled |-> cancelled]
        /\ UNCHANGED <<call, stream, streamLog, run, scanner, DisableHedge, book, sourceBalances, hedgeErrorLimiter,
                       hedgeErrorRateReservation, nextOrderID, numTrades, lastHedge,
                       initialUncovered, config, makerBalances, circuitBreakerHalted>>

BandSets == {NoBands,
             [up |-> HighPrice + 10 * Scale, down |-> LowPrice - 4 * Scale],
             [up |-> HighPrice - 10 * Scale, down |-> HighPrice + 10 * Scale]}

\* the indexes of the batch the maker venue rejects
RejectionSets == {{}, {1}}

\* one tick of the quoting ticker
QuotePass ==
    \E cancelErr \in BOOLEAN, remaining \in {{}, activeMakerOrders},
       bands \in IF config.EnableBollBandMargin THEN BandSets ELSE {NoBands},
       formatOk \in BOOLEAN, rejected \in RejectionSets :
        updateQuote(cancelErr, remaining, bands, formatOk, rejected)


\* ------------------------------------------------------------------------
\* hedgeWorker: one tick of the hedge ticker

NoHedge == [outcome |-> "none", side |-> "BUY", quantity |-> 0, venue |-> "source",
            uncovered |-> 0, coveredBefore |-> 0, coveredAfter |-> 0, slept |-> 0,
            drained |-> 0]

\* the covered position moved against the hedge
CoveredAfterHedge_Reversed(cov, side, quantity) ==
    IF side = "SELL" THEN cov + (0 - quantity) ELSE cov + quantity

\* the covered position grows by the quantity whatever the side
CoveredAfterHedge_Unsigned(cov, side, quantity) == cov + quantity

CoveredAfterHedge(cov, side, quantity) ==
    IF side = "SELL" THEN cov + quantity ELSE cov + (0 - quantity)

HedgeVenue == "source"

\* DisableHedge is not looked at
HedgeGate_DisableIgnored(disable, uncover) == Abs(uncover) > MinQuantity

HedgeGate(disable, uncover) == ~disable /\ Abs(uncover) > MinQuantity

hedgeWorker(formatOk, placeOk) ==
    LET position == ProcessPosition(Position, tradeStore)
        covered  == ProcessCovered(CoveredPosition, tradeStore)
        uncoverPosition == position - covered
        h        == Hedge(0 - uncoverPosition, lastPrice, CopyDepth(book, 1), sourceBalances)
        resv     == hedgeErrorRateReservation
        slept    == IF resv.set THEN resv.delay ELSE 0
        tokens   == Refill(hedgeErrorLimiter, slept)
        sleeps   == IF HedgeGate(DisableHedge, uncoverPosition) /\ ~h.skip
                       /\ ~(resv.set /\ ~resv.ok)
                    THEN slept ELSE 0
        order    == Order(nextOrderID, HedgeVenue, h.side, 0, h.quantity)
        report(outcome, covAfter) ==
            [outcome |-> outcome, side |-> h.side, quantity |-> h.quantity,
             venue |-> HedgeVenue, uncovered |-> uncoverPosition,
             coveredBefore |-> covered, coveredAfter |-> covAfter, slept |-> slept,
             drained |-> Len(tradeStore)]
    IN  /\ Position' = position
        /\ tradeStore' = << >>
        /\ UNCHANGED <<call, stream, streamLog, run, scanner, DisableHedge, lastPrice, book, sourceBalances, numTrades,
                       initialUncovered, config, makerBalances, circuitBreakerHalted,
                       lastQuote>>
        /\ bidPriceHeartBeat' = ElapseHeartBeat(bidPriceHeartBeat, sleeps)
        /\ askPriceHeartBeat' = ElapseHeartBeat(askPriceHeartBeat, sleeps)
        /\ IF ~HedgeGate(DisableHedge, uncoverPosition)
           THEN /\ CoveredPosition' = covered
                /\ lastHedge' = [report("gated", covered) EXCEPT !.slept = 0]
                /\ UNCHANGED <<hedgeErrorLimiter, hedgeErrorRateReservation,
                               activeMakerOrders, exchangeOrders, nextOrderID>>
           ELSE IF h.skip \/ (resv.set /\ ~resv.ok)
           THEN /\ CoveredPosition' = covered
                /\ lastHedge' = [report("skipped", covered) EXCEPT !.slept = 0]
                /\ UNCHANGED <<hedgeErrorLimiter, hedgeErrorRateReservation,
                               activeMakerOrders, exchangeOrders, nextOrderID>>
           ELSE IF ~formatOk
           THEN /\ CoveredPosition' = covered
                /\ hedgeErrorLimiter' = tokens
                /\ hedgeErrorRateReservation' = NoReservation
                /\ lastHedge' = report("unformatted", covered)
                /\ UNCHANGED <<activeMakerOrders, exchangeOrders, nextOrderID>>
           ELSE IF ~placeOk
           THEN /\ CoveredPosition' = covered
                /\ hedgeErrorLimiter' = ReserveTokens(tokens)
                /\ hedgeErrorRateReservation' = Reserve(tokens)
                /\ lastHedge' = report("failed", covered)
                /\ UNCHANGED <<activeMakerOrders, exchangeOrders, nextOrderID>>
           ELSE /\ nextOrderID <= MaxOrders
                /\ CoveredPosition' = CoveredAfterHedge(covered, h.side, h.quantity)
                /\ hedgeErrorLimiter' = tokens
                /\ hedgeErrorRateReservation' = NoReservation
                /\ activeMakerOrders' = activeMakerOrders \cup {order}
                /\ exchangeOrders' = exchangeOrders \cup {order}
                /\ nextOrderID' = nextOrderID + 1
                /\ lastHedge' = report("submitted",
                                       CoveredAfterHedge(covered, h.side, h.quantity))

HedgeTick == \E formatOk \in BOOLEAN, placeOk \in BOOLEAN : hedgeWorker(formatOk, placeOk)

\* a closed system: every hedge order is formatted and accepted
HedgeTickAccepted == hedgeWorker(TRUE, TRUE)

\* ------------------------------------------------------------------------
\* the values the inputs are drawn from; Position and CoveredPosition are
\* restored from persistence

RestoredPositions ==
    {0, 400, 1000, 1005, 1020, 1030, 2000, 2030, 2045, 3000,
     -400, -1000, -1005, -1020, -1030, -2000, -2030, -2045, -3000}

RestoredCovered == {0, 500}

HedgedPositions == {0, 1000, 1030, 2045, -1000, -1030, -2045}

HedgeBooks == {EmptyBook, BookAt(LowPrice), BookAt(HighPrice)}

SourceBooks == {EmptyBook, BookAt(HighPrice), CrossedBook}

QuotedPositions == {0, 3000, -3000}

MaxExposure == 2 * Scale

QuoteConfigs ==
    {[DefaultConfig EXCEPT !.MaxExposurePosition = MaxExposure, !.NumLayers = 2,
                           !.QuantityMultiplier = two]}

SourceBalanceSets ==
    {NoBalance, Balances(0, 0), Balances(SomeBase, SomeQuote), Balances(AmpleBase, AmpleQuote)}

\* ------------------------------------------------------------------------
\* the user data streams: trades reported by the venues

\* the source venue fills a hedge market order completely; the collector folds
\* the trade and the OnTrade subscriber updates the covered position
SourceFill ==
    \E o \in exchangeOrders :
        /\ o.venue = "source"
        /\ LET t == Trade("source", o.side, o.quantity)
           IN  /\ Position' = FoldPosition(Position, t)
               /\ CoveredPosition' = OnTradeCovered(CoveredPosition, t)
        /\ exchangeOrders' = exchangeOrders \ {o}
        /\ UNCHANGED <<call, stream, streamLog, run, scanner, DisableHedge, lastPrice, book, sourceBalances, hedgeErrorLimiter,
                       hedgeErrorRateReservation, activeMakerOrders,
                       tradeStore, nextOrderID, numTrades, lastHedge, initialUncovered,
                       quoteVars>>

\* the source venue fills a hedge market order before the order is recorded:
\* the trade waits in the collector for the next Process()
SourceFillEarly ==
    \E o \in exchangeOrders :
        /\ o.venue = "source"
        /\ numTrades < MaxTrades
        /\ tradeStore' = Append(tradeStore, Trade("source", o.side, o.quantity))
        /\ numTrades' = numTrades + 1
        /\ exchangeOrders' = exchangeOrders \ {o}
        /\ UNCHANGED <<call, stream, streamLog, run, scanner, Position, CoveredPosition, DisableHedge, lastPrice, book,
                       sourceBalances, hedgeErrorLimiter, hedgeErrorRateReservation,
                       activeMakerOrders, nextOrderID, lastHedge, initialUncovered,
                       quoteVars>>

\* the clock moves on by TimeStep seconds
AdvanceTime ==
    /\ hedgeErrorLimiter' = Refill(hedgeErrorLimiter, TimeStep)
    /\ hedgeErrorRateReservation' = ElapseReservation(hedgeErrorRateReservation, TimeStep)
    /\ bidPriceHeartBeat' = ElapseHeartBeat(bidPriceHeartBeat, TimeStep)
    /\ askPriceHeartBeat' = ElapseHeartBeat(askPriceHeartBeat, TimeStep)
    /\ UNCHANGED <<call, stream, streamLog, run, scanner, Position, CoveredPosition, DisableHedge, lastPrice, book, sourceBalances,
                   activeMakerOrders, exchangeOrders, tradeStore, nextOrderID,
                   numTrades, lastHedge, initialUncovered, config, makerBalances,
                   circuitBreakerHalted, lastQuote>>


\* the maker venue fills a resting maker order completely; the trade either
\* is folded at once or waits in the collector for the next Process()
MakerFill ==
    \E o \in exchangeOrders, buffered \in BOOLEAN :
        /\ o.venue = "maker"
        /\ numTrades < MaxTrades
        /\ LET t == Trade("maker", o.side, o.quantity)
           IN  /\ Position' = IF buffered THEN Position ELSE FoldPosition(Position, t)
               /\ CoveredPosition' = IF buffered THEN CoveredPosition
                                     ELSE OnTradeCovered(CoveredPosition, t)
               /\ tradeStore' = IF buffered THEN Append(tradeStore, t) ELSE tradeStore
        /\ numTrades' = numTrades + 1
        /\ exchangeOrders' = exchangeOrders \ {o}
        /\ activeMakerOrders' = activeMakerOrders \ {o}
        /\ UNCHANGED <<call, stream, streamLog, run, scanner, DisableHedge, lastPrice, book, sourceBalances, hedgeErrorLimiter,
                       hedgeErrorRateReservation, nextOrderID, lastHedge,
                       initialUncovered, quoteVars>>

\* the source market data stream replaces the book
BookUpdate ==
    /\ book' \in SourceBooks \ {book}
    /\ UNCHANGED <<call, stream, streamLog, run, scanner, Position, CoveredPosition, DisableHedge, lastPrice, sourceBalances,
                   hedgeErrorLimiter, hedgeErrorRateReservation,
                   activeMakerOrders, exchangeOrders, tradeStore, nextOrderID, numTrades,
                   lastHedge, initialUncovered, quoteVars>>

\* the circuit breaker halts, or its window slides past the losses
BreakerChange ==
    /\ circuitBreakerHalted' = ~circuitBreakerHalted
    /\ UNCHANGED <<call, stream, streamLog, run, scanner, Position, CoveredPosition, DisableHedge, lastPrice, book, sourceBalances,
                   hedgeErrorLimiter, hedgeErrorRateReservation,
                   activeMakerOrders, exchangeOrders, tradeStore, nextOrderID, numTrades,
                   lastHedge, initialUncovered, config, makerBalances, bidPriceHeartBeat,
                   askPriceHeartBeat, lastQuote>>


\* ------------------------------------------------------------------------
\* initial states and specifications

NoCall == [fn |-> "none"]

\* ------------------------------------------------------------------------
\* the coinbase stream: its sequence number map and its working order cache

\* sequence numbers of the messages drawn
MaxSeq == 2

ProductIDs == {"BTC-USD"}

OrderIDs == {"a"}

EmptyMap == [k \in {} |-> 0]

MapPut(map, k, v) == [x \in DOMAIN map \cup {k} |-> IF x = k THEN v ELSE map[x]]

MapDelete(map, k) == [x \in DOMAIN map \ {k} |-> map[x]]

\* key := fmt.Sprintf("%s-%s", msgType, productId); no message type holds a
\* dash, so the key determines the pair
SequenceKey(msgType, productId) == <<msgType, productId>>

StreamOrder(id, status, working) == [UUID |-> id, Status |-> status, IsWorking |-> working]

NoUpdate == [UUID |-> "", Status |-> "", IsWorking |-> FALSE]

\* no scan of tradeRecover
NoScan == [startTime |-> 0, now |-> 0, source |-> "none", maker |-> "none"]

\* CrossRun has not reached the start of tradeRecover
NoScanner ==
    [started |-> "pending", RecoverTrade |-> FALSE, RecoverTradeScanPeriod |-> 0,
     due |-> 0, ticks |-> 0, scans |-> 0, prev |-> NoScan, last |-> NoScan]

\* CrossRun returned: stopC is made, quoteWorker runs, the shutdown callback
\* is registered
Started == [stopC |-> "open", quoteWorker |-> "running", shutdown |-> "idle"]

\* the Stream before its first connect
NewStream ==
    [userOrderOnly       |-> FALSE,
     lastSequenceMsgMap  |-> EmptyMap,
     workingOrdersMap    |-> EmptyMap,
     lockWorkingOrderMap |-> "free",     \* or the handler that holds it
     blocked             |-> {},         \* handlers waiting for a lock
     snapshotPending     |-> FALSE]      \* the goroutine of handleConnect

\* processed: the last message that passed the sequence check, whether the
\* map was cleared since, and the parity of the number of messages passed; emitted: the order update the last handler
\* emitted; queried: what its call of QueryOrder, if any, returned; terminal: the orders for
\* which a filled or canceled update was emitted
NoLog ==
    [processed |-> [key |-> <<>>, seq |-> 0, order |-> "", cleared |-> FALSE, odd |-> FALSE],
     emitted   |-> NoUpdate,
     queried   |-> "none",
     terminal  |-> {}]

InitCommon ==
    /\ call = NoCall
    /\ stream = NewStream
    /\ streamLog = NoLog
    /\ run = Started
    /\ scanner = NoScanner
    /\ initialUncovered = Position - CoveredPosition
    /\ hedgeErrorLimiter = LimiterPeriod
    /\ hedgeErrorRateReservation = NoReservation
    /\ activeMakerOrders = {}
    /\ exchangeOrders = {}
    /\ tradeStore = << >>
    /\ nextOrderID = 1
    /\ numTrades = 0
    /\ lastHedge = NoHedge
    /\ bidPriceHeartBeat = NewPriceHeartBeat
    /\ askPriceHeartBeat = NewPriceHeartBeat
    /\ lastQuote = NoQuote
    /\ lastPrice = 0

\* the closed system of the convergence law: hedging enabled, a valid source
\* book that does not move, ample source balances, no maker order
InitClosed ==
    /\ Position \in RestoredPositions
    /\ CoveredPosition \in RestoredCovered
    /\ InitCommon
    /\ DisableHedge = FALSE
    /\ book \in {BookAt(LowPrice), BookAt(HighPrice)}
    /\ sourceBalances = Balances(AmpleBase, AmpleQuote)
    /\ config = DefaultConfig
    /\ makerBalances = Balances(AmpleBase, AmpleQuote)
    /\ circuitBreakerHalted = FALSE

NextClosed == HedgeTickAccepted \/ SourceFill

SpecClosed == InitClosed /\ [][NextClosed]_vars
              /\ WF_vars(HedgeTickAccepted) /\ WF_vars(SourceFill)

\* the hedging loop and the user data stream of the source venue
InitHedge ==
    /\ Position \in HedgedPositions
    /\ CoveredPosition \in RestoredCovered
    /\ InitCommon
    /\ DisableHedge \in BOOLEAN
    /\ book \in HedgeBooks
    /\ sourceBalances \in SourceBalanceSets
    /\ config = DefaultConfig
    /\ makerBalances = Balances(AmpleBase, AmpleQuote)
    /\ circuitBreakerHalted = FALSE

NextHedge == HedgeTick \/ SourceFill \/ SourceFillEarly \/ AdvanceTime

SpecHedge == InitHedge /\ [][NextHedge]_vars

\* the quoting loop, the user data stream of the maker venue, the market data
\* stream of the source venue and the circuit breaker
InitQuote ==
    /\ Position \in QuotedPositions
    /\ CoveredPosition = Position
    /\ InitCommon
    /\ DisableHedge = TRUE
    /\ book = BookAt(HighPrice)
    /\ sourceBalances = Balances(AmpleBase, AmpleQuote)
    /\ config \in QuoteConfigs
    /\ makerBalances = Balances(AmpleBase, AmpleQuote)
    /\ circuitBreakerHalted = FALSE

NextQuote == QuotePass \/ MakerFill \/ AdvanceTime \/ BookUpdate \/ BreakerChange

SpecQuote == InitQuote /\ [][NextQuote]_vars

\* ------------------------------------------------------------------------
\* properties of the hedging loop in the closed system

Uncovered == Position - CoveredPosition

\* the price Hedge estimates the notional with: best bid for a sell (long
\* uncovered), best ask for a buy (short uncovered)
QuotedPrice(u) == IF u > 0 THEN BestBid(book).Price ELSE BestAsk(book).Price

\* the uncovered quantity passes every minimum of the hedge
AboveMinimums(u) ==
    /\ Abs(u) > MinQuantity
    /\ Mul(Abs(u), QuotedPrice(u)) > Mul(MinNotional, minGap)
    /\ Abs(u) - (Abs(u) % StepSize) > Mul(MinQuantity, minGap)

\* what truncation to the step size leaves of it
Remainder(u) == Sign(u) * (Abs(u) % StepSize)

\* C1 as stated: in the closed system the uncovered position eventually is 0,
\* whatever it was at the start
C1_ConvergesToZero == <>(Uncovered = 0)

\* C1 amended: in the closed system repeated hedge ticks bring an uncovered
\* position that passes the minimums of the hedge (more than minQuantity, its
\* quantity truncated to stepSize more than minQuantity x 1.02, its notional
\* more than minNotional x 1.02) down to the remainder of its truncation to
\* stepSize, which is 0 exactly for a multiple of stepSize, and keep it there;
\* any other uncovered position is never hedged and stays what it was
C1_ConvergesToRemainder ==
    <>[](Uncovered = IF AboveMinimums(initialUncovered)
                     THEN Remainder(initialUncovered)
                     ELSE initialUncovered)

\* a hedge was submitted and filled, the uncovered position is its remainder
C1_Witness ==
    /\ lastHedge.outcome = "submitted"
    /\ exchangeOrders = {}
    /\ AboveMinimums(initialUncovered)
    /\ Uncovered = Remainder(initialUncovered)

WithinHedgeMinimums ==
    \/ Abs(Uncovered) <= MinQuantity
    \/ Abs(Uncovered) - (Abs(Uncovered) % StepSize) <= Mul(MinQuantity, minGap)
    \/ Mul(Abs(Uncovered), QuotedPrice(Uncovered)) <= Mul(MinNotional, minGap)

\* C2 as stated: the hedging loop reaches and keeps |uncovered| <= minQuantity
C2_SteadyWithinMinQuantity == <>[](Abs(Uncovered) <= MinQuantity)

\* C2 amended: with hedging enabled and submissions succeeding the hedging
\* loop reaches and keeps a state where |uncovered| <= minQuantity, or the
\* uncovered quantity truncated to stepSize is <= minQuantity x 1.02, or its
\* notional is <= minNotional x 1.02 (such a quantity is never hedged)
C2_SteadyWithinHedgeMinimums == <>[]WithinHedgeMinimums

\* a tick refused an uncovered quantity above minQuantity: it stays outside
\* the minQuantity bound
C2_Witness ==
    /\ lastHedge.outcome = "skipped"
    /\ Abs(Uncovered) > MinQuantity
    /\ exchangeOrders = {}

\* ------------------------------------------------------------------------
\* properties of the quoting loop

\* the sides of the orders the last pass submitted
SubmittedSides ==
    {lastQuote.submitOrders[k].side : k \in 1..Len(lastQuote.submitOrders)}

\* C3: with maxExposurePosition > 0, a pass at a position above
\* maxExposurePosition submits no buy order, a pass at a position below
\* -maxExposurePosition submits no sell order, and at a position within
\* [-maxExposurePosition, maxExposurePosition] the exposure rule disables
\* neither side
C3_ExposureRule ==
    (config.MaxExposurePosition > 0 /\ lastQuote.outcome = "submitted") =>
        /\ lastQuote.position > config.MaxExposurePosition => "BUY" \notin SubmittedSides
        /\ lastQuote.position < 0 - config.MaxExposurePosition => "SELL" \notin SubmittedSides
        /\ (/\ lastQuote.position <= config.MaxExposurePosition
            /\ lastQuote.position >= 0 - config.MaxExposurePosition) =>
                LET gate == ExposureGate(lastQuote.position, config.MaxExposurePosition)
                IN  ~gate.disableMakerBid /\ ~gate.disableMakerAsk

\* C4: with maxExposurePosition > 0, every maker order of a pass, of quantity
\* q, leaves |position| <= maxExposurePosition + q if it alone fills completely
C4_ExposureAfterFill ==
    config.MaxExposurePosition > 0 =>
        \A k \in 1..Len(lastQuote.submitOrders) :
            LET o == lastQuote.submitOrders[k]
                filled == FoldPosition(lastQuote.position, Trade("maker", o.side, o.quantity))
            IN  Abs(filled) <= config.MaxExposurePosition + o.quantity

\* the heart beat has held this best price for more than priceUpdateTimeout
HeldTooLong(hb, current) ==
    hb.last.Price # 0 /\ hb.last = current /\ hb.age > priceUpdateTimeout

\* a heart beat of the pass that starts now reports stale
StalePrice ==
    /\ BestBidAndAsk(book)
    /\ \/ HeldTooLong(bidPriceHeartBeat, BestBid(book))
       \/ HeldTooLong(askPriceHeartBeat, BestAsk(book))

\* no order is placed: no maker order is active or rests at the maker venue
\* that was not there before
NothingPlaced ==
    /\ lastQuote'.submitOrders = << >>
    /\ activeMakerOrders' \subseteq activeMakerOrders
    /\ exchangeOrders' \subseteq exchangeOrders

\* C5: a quoting pass in which the bid or the ask heart beat reports stale
\* (the best price unchanged for more than priceUpdateTimeout = 30 s) submits
\* no maker order
C5_StaleSubmitsNothing ==
    [][(StalePrice /\ QuotePass) => NothingPlaced]_vars

\* a pass met a stale heart beat after cancelling the orders of the pass before
C5_Witness ==
    /\ lastQuote.outcome = "stale"
    /\ lastQuote.cancelled # {}
    /\ StalePrice
    /\ activeMakerOrders = {}

\* the maker orders resting at the maker venue
RestingMakerOrders == {o \in exchangeOrders : o.venue = "maker"}

\* a pass whose graceful cancel succeeded and left no active order
CancelledPass ==
    \E bands \in BandSets, formatOk \in BOOLEAN, rejected \in RejectionSets :
        updateQuote(FALSE, {}, bands, formatOk, rejected)

\* the source book, the heart beats, the calls of the pass: nothing but the
\* circuit breaker stands in the way of quoting
ReadyToQuote ==
    /\ BestBidAndAsk(book)
    /\ IsValid(book)
    /\ ~StalePrice

\* C6: a quoting pass in which the circuit breaker reports halted places no
\* maker order, and the maker orders active before it have been cancelled in
\* that pass; the loop keeps running: a pass after a halted one, the breaker no
\* longer halted, quotes again
C6_HaltedPlacesNothing ==
    [][/\ (circuitBreakerHalted /\ CancelledPass) =>
            /\ NothingPlaced
            /\ lastQuote'.outcome = "halted"
            /\ lastQuote'.cancelled = activeMakerOrders
            /\ activeMakerOrders' = {}
            /\ RestingMakerOrders' = {}
       /\ (/\ lastQuote.outcome = "halted"
           /\ ~circuitBreakerHalted
           /\ ReadyToQuote
           /\ \E rejected \in RejectionSets : updateQuote(FALSE, {}, NoBands, TRUE, rejected)) =>
            /\ lastQuote'.outcome = "submitted"
            /\ lastQuote'.submitOrders # << >>]_vars

\* a halted pass that cancelled maker orders and placed none
C6_Witness ==
    /\ lastQuote.outcome = "halted"
    /\ lastQuote.cancelled # {}
    /\ circuitBreakerHalted
    /\ activeMakerOrders = {}
    /\ RestingMakerOrders = {}

\* C7: a quoting pass submits maker orders only if the graceful cancel
\* succeeded and no maker order is active after it; a pass whose cancel fails
\* or leaves an order active ends without submitting
C7_SubmitsOnlyAfterCancel ==
    [][\A cancelErr \in BOOLEAN, remaining \in {{}, activeMakerOrders} :
            (/\ cancelErr \/ remaining # {}
             /\ updateQuote(cancelErr, remaining, NoBands, TRUE, {})) =>
                /\ NothingPlaced
                /\ activeMakerOrders' = remaining
                /\ lastQuote'.outcome \in {"cancelFailed", "ordersRemain"}]_vars

\* a pass found maker orders still active after the cancel and ended
C7_Witness ==
    /\ lastQuote.outcome = "ordersRemain"
    /\ lastQuote.submitOrders = << >>
    /\ activeMakerOrders # {}

\* ------------------------------------------------------------------------
\* properties of the hedging loop

\* the uncovered position a tick that starts now computes, after it folded the
\* trades waiting in the collector
UncoveredAtTick ==
    ProcessPosition(Position, tradeStore) - ProcessCovered(CoveredPosition, tradeStore)

\* the orders this step submitted
NewOrders == exchangeOrders' \ exchangeOrders

\* C8: the side of a hedge order is opposite to the sign of uncovered =
\* position - coveredPosition: a sell for uncovered > 0, a buy for uncovered
\* < 0; it is a market order on the source venue, never on the maker venue
C8_HedgeSideOpposite ==
    [][\A o \in NewOrders :
        /\ o.venue = "source"
        /\ o.price = 0
        /\ UncoveredAtTick # 0
        /\ UncoveredAtTick > 0 => o.side = "SELL"
        /\ UncoveredAtTick < 0 => o.side = "BUY"]_vars

\* a short uncovered position was hedged with a buy on the source venue
C8_Witness ==
    /\ lastHedge.outcome = "submitted"
    /\ lastHedge.uncovered < 0
    /\ \E o \in exchangeOrders :
        o.venue = "source" /\ o.side = "BUY" /\ o.quantity = lastHedge.quantity

\* C9: a tick that submits a hedge of quantity q moves coveredPosition by
\* exactly +q for a sell and -q for a buy, so |position - coveredPosition|
\* after the submission is the |uncovered| of the tick minus q
C9_CoveredBySignedQuantity ==
    [][\A o \in NewOrders :
        LET position == ProcessPosition(Position, tradeStore)
            covered  == ProcessCovered(CoveredPosition, tradeStore)
        IN  /\ o.quantity > 0
            /\ o.side = "SELL" => CoveredPosition' = covered + o.quantity
            /\ o.side = "BUY" => CoveredPosition' = covered - o.quantity
            /\ Position' = position
            /\ Abs(Position' - CoveredPosition') = Abs(position - covered) - o.quantity]_vars

\* a sell hedge capped by the base balance covered part of the uncovered position
C9_Witness ==
    /\ lastHedge.outcome = "submitted"
    /\ lastHedge.side = "SELL"
    /\ lastHedge.quantity > 0
    /\ CoveredPosition = lastHedge.coveredBefore + lastHedge.quantity
    /\ Abs(Position - CoveredPosition) = Abs(lastHedge.uncovered) - lastHedge.quantity
    /\ Position # CoveredPosition

\* a hedge tick that finds DisableHedge set or |uncovered| <= minQuantity
GatedTick ==
    /\ DisableHedge \/ Abs(UncoveredAtTick) <= MinQuantity
    /\ HedgeTick

NothingHedged ==
    /\ exchangeOrders' = exchangeOrders
    /\ activeMakerOrders' = activeMakerOrders
    /\ nextOrderID' = nextOrderID

BandQuote == Mul(1030, HighPrice + Spread) + TickSize

FitBalanceSets ==
    {Balances(SomeBase, SomeQuote), Balances(SomeBase, BandQuote),
     Balances(AmpleBase, SomeQuote), Balances(AmpleBase, AmpleQuote)}

\* the hedging loop with hedging enabled, a source book with both sides and a
\* source account that holds both currencies
InitBalance ==
    /\ Position \in HedgedPositions
    /\ CoveredPosition \in RestoredCovered
    /\ InitCommon
    /\ DisableHedge = FALSE
    /\ book \in {BookAt(LowPrice), BookAt(HighPrice)}
    /\ sourceBalances \in FitBalanceSets
    /\ config = DefaultConfig
    /\ makerBalances = Balances(AmpleBase, AmpleQuote)
    /\ circuitBreakerHalted = FALSE

NextBalance == HedgeTick \/ SourceFill

SpecBalance == InitBalance /\ [][NextBalance]_vars

\* C11: every submitted hedge order fits the source balance: a buy has
\* quantity x price x 1.001 <= quote.available at the source best ask, a sell
\* has quantity <= base.available
C11_HedgeFitsBalance ==
    [][\A o \in NewOrders :
        /\ o.side = "BUY" =>
            Mul(o.quantity, Mul(BestAsk(book).Price, lastPriceModifier))
                <= sourceBalances["quote"]
        /\ o.side = "SELL" => o.quantity <= sourceBalances["base"]]_vars

\* C12: no hedge order is submitted whose adjusted notional (adjusted quantity
\* x price) is <= minNotional x 1.02 or whose adjusted quantity is <=
\* minQuantity x 1.02
C12_HedgeAboveMinimums ==
    [][\A o \in NewOrders :
        LET price == HedgePrice(o.side, lastPrice, CopyDepth(book, 1))
        IN  /\ Mul(o.quantity, price) > Mul(MinNotional, minGap)
            /\ o.quantity > Mul(MinQuantity, minGap)]_vars

\* ------------------------------------------------------------------------
\* a failed hedge submission

\* a hedge tick whose order the source venue refuses
FailedHedge == hedgeWorker(TRUE, FALSE) /\ lastHedge'.outcome = "failed"

\* the remaining delay of the pending reservation, which the tick sleeps
PendingDelay ==
    IF hedgeErrorRateReservation.set THEN hedgeErrorRateReservation.delay ELSE 0

\* a hedge tick that reaches the submission and whose order is accepted
AcceptedHedge ==
    /\ hedgeWorker(TRUE, TRUE)
    /\ HedgeGate(DisableHedge, UncoveredAtTick)
    /\ ~Hedge(0 - UncoveredAtTick, lastPrice, CopyDepth(book, 1), sourceBalances).skip

\* C13: a failed hedge submission leaves coveredPosition as the call found it,
\* places nothing and records a reservation on the error limiter (1 per
\* minute, burst 1); the next hedge order is submitted only after the tick has
\* slept the remaining delay of that reservation, and a later tick whose order
\* is accepted does submit
C13_FailedHedgeReserves ==
    [][/\ FailedHedge =>
            /\ CoveredPosition' = ProcessCovered(CoveredPosition, tradeStore)
            /\ NothingHedged
            /\ hedgeErrorRateReservation'.set
            /\ hedgeErrorRateReservation'.ok
            /\ hedgeErrorRateReservation'.delay
                   = LimiterPeriod - Refill(hedgeErrorLimiter, PendingDelay)
       /\ (HedgeTick /\ NewOrders # {} /\ hedgeErrorRateReservation.set) =>
            /\ lastHedge'.slept = hedgeErrorRateReservation.delay
            /\ ~hedgeErrorRateReservation'.set
       /\ (AcceptedHedge /\ hedgeErrorRateReservation.set) => NewOrders # {}]_vars

\* a hedge order was submitted by a tick that first slept a positive delay
\* left by an earlier failure, and coveredPosition moved by that order only
C13_Witness ==
    /\ lastHedge.outcome = "submitted"
    /\ lastHedge.slept > 0
    /\ ~hedgeErrorRateReservation.set
    /\ exchangeOrders # {}
    /\ CoveredPosition = lastHedge.coveredAfter

\* ------------------------------------------------------------------------
\* a hedge tick interleaved with a source trade callback. The tick runs on
\* the hedge ticker's goroutine and the OnTrade subscriber on the user data
\* stream's goroutine; CoveredPosition is read (hedgeWorker) and read,
\* changed and written back (Hedge, the subscriber) with no lock held.

\* what the two unsynchronised updates of CoveredPosition leave behind: both,
\* or only the one written last over a value read before the other
RaceOutcomes == {"both", "callbackLost", "hedgeLost"}

\* the callback reports the fill of a hedge order of an earlier tick and runs
\* after the tick read the position and before it reads CoveredPosition
hedgeWorkerRacedRead(o, formatOk, placeOk) ==
    LET t        == Trade("source", o.side, o.quantity)
        position == ProcessPosition(Position, tradeStore)
        covered  == OnTradeCovered(ProcessCovered(CoveredPosition, tradeStore), t)
        uncoverPosition == position - covered
        h        == Hedge(0 - uncoverPosition, lastPrice, CopyDepth(book, 1), sourceBalances)
        resv     == hedgeErrorRateReservation
        slept    == IF resv.set THEN resv.delay ELSE 0
        tokens   == Refill(hedgeErrorLimiter, slept)
        reaches  == HedgeGate(DisableHedge, uncoverPosition) /\ ~h.skip
                       /\ ~(resv.set /\ ~resv.ok)
        sleeps   == IF reaches THEN slept ELSE 0
        order    == Order(nextOrderID, HedgeVenue, h.side, 0, h.quantity)
        outcome  == IF ~HedgeGate(DisableHedge, uncoverPosition) THEN "gated"
                    ELSE IF ~reaches THEN "skipped"
                    ELSE IF ~formatOk THEN "unformatted"
                    ELSE IF ~placeOk THEN "failed" ELSE "submitted"
        covAfter == IF outcome = "submitted"
                    THEN CoveredAfterHedge(covered, h.side, h.quantity) ELSE covered
    IN  /\ o \in exchangeOrders
        /\ o.venue = "source"
        /\ outcome = "submitted" => nextOrderID <= MaxOrders
        /\ Position' = FoldPosition(position, t)
        /\ CoveredPosition' = covAfter
        /\ tradeStore' = << >>
        /\ bidPriceHeartBeat' = ElapseHeartBeat(bidPriceHeartBeat, sleeps)
        /\ askPriceHeartBeat' = ElapseHeartBeat(askPriceHeartBeat, sleeps)
        /\ hedgeErrorLimiter' = IF ~reaches THEN hedgeErrorLimiter
                                ELSE IF outcome = "failed" THEN ReserveTokens(tokens)
                                ELSE tokens
        /\ hedgeErrorRateReservation' = IF ~reaches THEN hedgeErrorRateReservation
                                        ELSE IF outcome = "failed" THEN Reserve(tokens)
                                        ELSE NoReservation
        /\ activeMakerOrders' = IF outcome = "submitted"
                                THEN activeMakerOrders \cup {order} ELSE activeMakerOrders
        /\ exchangeOrders' = IF outcome = "submitted"
                             THEN (exchangeOrders \ {o}) \cup {order}
                             ELSE exchangeOrders \ {o}
        /\ nextOrderID' = IF outcome = "submitted" THEN nextOrderID + 1 ELSE nextOrderID
        /\ lastHedge' = [outcome |-> outcome, side |-> h.side, quantity |-> h.quantity,
                         venue |-> HedgeVenue, uncovered |-> uncoverPosition,
                         coveredBefore |-> covered, coveredAfter |-> covAfter,
                         slept |-> sleeps, drained |-> Len(tradeStore)]
        /\ UNCHANGED <<call, stream, streamLog, run, scanner, DisableHedge, lastPrice, book, sourceBalances, numTrades,
                       initialUncovered, config, makerBalances, circuitBreakerHalted,
                       lastQuote>>

\* the callback reports the fill of the market order this tick has just
\* placed and runs while Hedge updates CoveredPosition
hedgeWorkerRacedWrite(raceOutcome) ==
    LET position == ProcessPosition(Position, tradeStore)
        covered  == ProcessCovered(CoveredPosition, tradeStore)
        uncoverPosition == position - covered
        h        == Hedge(0 - uncoverPosition, lastPrice, CopyDepth(book, 1), sourceBalances)
        resv     == hedgeErrorRateReservation
        slept    == IF resv.set THEN resv.delay ELSE 0
        tokens   == Refill(hedgeErrorLimiter, slept)
        order    == Order(nextOrderID, HedgeVenue, h.side, 0, h.quantity)
        t        == Trade("source", h.side, h.quantity)
        covAfter == IF raceOutcome = "both"
                    THEN CoveredAfterHedge(OnTradeCovered(covered, t), h.side, h.quantity)
                    ELSE IF raceOutcome = "callbackLost"
                    THEN CoveredAfterHedge(covered, h.side, h.quantity)
                    ELSE OnTradeCovered(covered, t)
    IN  /\ HedgeGate(DisableHedge, uncoverPosition)
        /\ ~h.skip
        /\ ~(resv.set /\ ~resv.ok)
        /\ nextOrderID <= MaxOrders
        /\ Position' = FoldPosition(position, t)
        /\ CoveredPosition' = covAfter
        /\ tradeStore' = << >>
        /\ bidPriceHeartBeat' = ElapseHeartBeat(bidPriceHeartBeat, slept)
        /\ askPriceHeartBeat' = ElapseHeartBeat(askPriceHeartBeat, slept)
        /\ hedgeErrorLimiter' = tokens
        /\ hedgeErrorRateReservation' = NoReservation
        /\ activeMakerOrders' = activeMakerOrders \cup {order}
        /\ nextOrderID' = nextOrderID + 1
        /\ lastHedge' = [outcome |-> "submitted", side |-> h.side, quantity |-> h.quantity,
                         venue |-> HedgeVenue, uncovered |-> uncoverPosition,
                         coveredBefore |-> covered, coveredAfter |-> covAfter,
                         slept |-> slept, drained |-> Len(tradeStore)]
        /\ UNCHANGED <<call, stream, streamLog, run, scanner, DisableHedge, lastPrice, book, sourceBalances, exchangeOrders,
                       numTrades, initialUncovered, config, makerBalances,
                       circuitBreakerHalted, lastQuote>>

RacedRead ==
    \E o \in exchangeOrders, formatOk \in BOOLEAN, placeOk \in BOOLEAN :
        hedgeWorkerRacedRead(o, formatOk, placeOk)

RacedWrite == \E raceOutcome \in RaceOutcomes : hedgeWorkerRacedWrite(raceOutcome)

InitRace == InitBalance

NextRace == HedgeTick \/ SourceFill \/ RacedRead \/ RacedWrite

SpecRace == InitRace /\ [][NextRace]_vars

\* the change of CoveredPosition the tick's own hedge order accounts for
HedgeChange(report) ==
    IF report.outcome = "submitted"
    THEN CoveredAfterHedge(0, report.side, report.quantity) ELSE 0

\* C14: under any interleaving of a source trade callback with a hedge tick
\* no update to coveredPosition is lost (it ends at its value before the tick
\* plus the trade's position change plus the tick's own hedge) and the tick
\* computes uncovered from a consistent pair (position and coveredPosition
\* both before or both after the trade)
C14_NoLostUpdate ==
    [][/\ \A o \in exchangeOrders :
            LET t == Trade("source", o.side, o.quantity)
            IN  (\E formatOk \in BOOLEAN, placeOk \in BOOLEAN :
                     hedgeWorkerRacedRead(o, formatOk, placeOk)) =>
                    /\ CoveredPosition'
                           = OnTradeCovered(ProcessCovered(CoveredPosition, tradeStore), t)
                               + HedgeChange(lastHedge')
                    /\ lastHedge'.uncovered
                           \in {UncoveredAtTick,
                                FoldPosition(ProcessPosition(Position, tradeStore), t)
                                  - OnTradeCovered(
                                        ProcessCovered(CoveredPosition, tradeStore), t)}
       /\ RacedWrite =>
            LET t == Trade("source", lastHedge'.side, lastHedge'.quantity)
            IN  /\ CoveredPosition'
                       = OnTradeCovered(ProcessCovered(CoveredPosition, tradeStore), t)
                           + HedgeChange(lastHedge')
                /\ lastHedge'.uncovered = UncoveredAtTick]_vars

\* ------------------------------------------------------------------------
\* the trade subscriber on both user data streams

\* a quoting pass whose cancel succeeds and whose orders are all accepted
QuotePassAccepted == updateQuote(FALSE, {}, NoBands, TRUE, {})

\* both loops and both user data streams, with every order accepted
InitTrades ==
    /\ Position \in QuotedPositions
    /\ CoveredPosition \in {Position, 0}
    /\ InitCommon
    /\ DisableHedge = FALSE
    /\ book = BookAt(HighPrice)
    /\ sourceBalances = Balances(AmpleBase, AmpleQuote)
    /\ config = DefaultConfig
    /\ makerBalances = Balances(AmpleBase, AmpleQuote)
    /\ circuitBreakerHalted = FALSE

NextTrades ==
    QuotePassAccepted \/ MakerFill \/ HedgeTickAccepted \/ SourceFill \/ SourceFillEarly

SpecTrades == InitTrades /\ [][NextTrades]_vars

RECURSIVE SumChanges(_)
SumChanges(trades) ==
    IF trades = << >> THEN 0 ELSE PositionChange(Head(trades)) + SumChanges(Tail(trades))

IsSourceTrade(t) == t.exchange = "source"

\* the signed position change of the order a fill step took off the venue
FilledChange ==
    LET gone == exchangeOrders \ exchangeOrders'
    IN  IF gone = {} THEN 0 ELSE PositionChange(CHOOSE o \in gone : TRUE)

\* C15: the subscriber changes coveredPosition only for source trades, by the
\* trade's signed position change: a source fill moves position and
\* coveredPosition by the fill's signed quantity and leaves position -
\* coveredPosition unchanged, a maker fill leaves coveredPosition unchanged,
\* and a pass that folds buffered trades moves coveredPosition by the source
\* trades among them only
C15_CoveredBySourceTradesOnly ==
    [][/\ SourceFill =>
            /\ CoveredPosition' = CoveredPosition + FilledChange
            /\ Position' = Position + FilledChange
            /\ Position' - CoveredPosition' = Position - CoveredPosition
       /\ MakerFill =>
            /\ CoveredPosition' = CoveredPosition
            /\ Position' \in {Position, Position + FilledChange}
       /\ QuotePassAccepted =>
            /\ CoveredPosition'
                   = CoveredPosition + SumChanges(SelectSeq(tradeStore, IsSourceTrade))
            /\ Position' = Position + SumChanges(tradeStore)]_vars

\* a maker trade moved the uncovered position away from its initial value,
\* nothing waits in the collector, and the hedge order of the last tick was
\* filled on the source venue: coveredPosition is back at its value before
\* that order
C15_Witness ==
    /\ numTrades > 0
    /\ tradeStore = << >>
    /\ lastHedge.outcome = "submitted"
    /\ lastHedge.quantity > 0
    /\ \A o \in exchangeOrders : o.venue # "source"
    /\ CoveredPosition = lastHedge.coveredBefore
    /\ lastHedge.uncovered # initialUncovered

\* ------------------------------------------------------------------------
\* aggregatePrice applied on its own to one side of a book

\* the strategy at rest while a function is applied on its own
InitIdle ==
    /\ Position = 0
    /\ CoveredPosition = 0
    /\ initialUncovered = 0
    /\ hedgeErrorLimiter = LimiterPeriod
    /\ hedgeErrorRateReservation = NoReservation
    /\ activeMakerOrders = {}
    /\ exchangeOrders = {}
    /\ tradeStore = << >>
    /\ nextOrderID = 1
    /\ numTrades = 0
    /\ lastHedge = NoHedge
    /\ bidPriceHeartBeat = NewPriceHeartBeat
    /\ askPriceHeartBeat = NewPriceHeartBeat
    /\ lastQuote = NoQuote
    /\ lastPrice = 0
    /\ DisableHedge = TRUE
    /\ book = EmptyBook
    /\ sourceBalances = Balances(AmpleBase, AmpleQuote)
    /\ config = DefaultConfig
    /\ makerBalances = Balances(AmpleBase, AmpleQuote)
    /\ circuitBreakerHalted = FALSE
    /\ stream = NewStream
    /\ streamLog = NoLog
    /\ run = Started
    /\ scanner = NoScanner

MaxLevels == 3

LevelPrices == {10 * Scale, 11 * Scale, 12 * Scale + Scale \div 2, 13 * Scale}

LevelVolumes == {Scale \div 2, Scale, 2 * Scale}

RequiredQuantities == {0, Scale \div 2, Scale, Scale + Scale \div 2, 3 * Scale, 7 * Scale}

StrictlyDecreasing(pvs) == \A i \in 1..(Len(pvs) - 1) : pvs[i].Price > pvs[i + 1].Price

StrictlyIncreasing(pvs) == \A i \in 1..(Len(pvs) - 1) : pvs[i].Price < pvs[i + 1].Price

Levels == {PV(p, v) : p \in LevelPrices, v \in LevelVolumes}

SidesOfLength(n) == [1..n -> Levels]

\* the bid sides and the ask sides of up to MaxLevels levels
BidSides == UNION {{pvs \in SidesOfLength(n) : StrictlyDecreasing(pvs)} : n \in 0..MaxLevels}

AskSides == UNION {{pvs \in SidesOfLength(n) : StrictlyIncreasing(pvs)} : n \in 0..MaxLevels}

InitAggregate ==
    /\ InitIdle
    /\ \E side \in {"bids", "asks"}, q1 \in RequiredQuantities, q2 \in RequiredQuantities :
        \E pvs \in IF side = "bids" THEN BidSides ELSE AskSides :
            /\ q1 < q2
            /\ call = [fn |-> "aggregatePrice", side |-> side, pvs |-> pvs,
                       q1 |-> q1, q2 |-> q2, price1 |-> 0, price2 |-> 0, done |-> FALSE]

\* aggregatePrice is applied to the side for both quantities
aggregatePriceCall ==
    /\ call.fn = "aggregatePrice"
    /\ ~call.done
    /\ call' = [call EXCEPT !.price1 = aggregatePrice(call.pvs, call.q1),
                            !.price2 = aggregatePrice(call.pvs, call.q2),
                            !.done = TRUE]
    /\ UNCHANGED <<strategyVars, stream, streamLog, run, scanner>>

NextAggregate == aggregatePriceCall

SpecAggregate == InitAggregate /\ [][NextAggregate]_vars

RECURSIVE TotalVolume(_)
TotalVolume(pvs) ==
    IF pvs = << >> THEN 0 ELSE Head(pvs).Volume + TotalVolume(Tail(pvs))

\* C16 as stated: for every book and 0 < Q1 < Q2 the aggregate price of the
\* bids does not rise and the aggregate price of the asks does not fall from
\* Q1 to Q2, books whose total volume is less than Q2 included
C16_Monotone ==
    (call.fn = "aggregatePrice" /\ call.done /\ 0 < call.q1) =>
        /\ call.side = "bids" => call.price1 >= call.price2
        /\ call.side = "asks" => call.price1 <= call.price2

\* C16 amended: the aggregate price of the bids does not rise from Q1 to Q2
\* for every book; the aggregate price of the asks does not fall from Q1 to Q2
\* when the asks hold at least Q2 in total
C16_MonotoneWithinDepth ==
    (call.fn = "aggregatePrice" /\ call.done /\ 0 < call.q1) =>
        /\ call.side = "bids" => call.price1 >= call.price2
        /\ (call.side = "asks" /\ TotalVolume(call.pvs) >= call.q2) =>
               call.price1 <= call.price2

\* asks deep enough for Q2, both quantities reaching past the first level,
\* and a strictly higher aggregate price for the larger quantity
C16_Witness ==
    /\ call.fn = "aggregatePrice"
    /\ call.done
    /\ call.side = "asks"
    /\ Len(call.pvs) = MaxLevels
    /\ call.pvs[1].Volume < call.q1
    /\ TotalVolume(call.pvs) >= call.q2
    /\ call.pvs[1].Price < call.price1
    /\ call.price1 < call.price2

\* the volume of the levels above level i
VolumeBefore(pvs, i) == TotalVolume(SubSeq(pvs, 1, i - 1))

\* what a fill of q takes from level i
Consumed(pvs, i, q) == Min(pvs[i].Volume, Max(0, q - VolumeBefore(pvs, i)))

RECURSIVE ConsumedAmount(_, _, _)
\* the sum of consumed volume x price over the levels from i on
ConsumedAmount(pvs, i, q) ==
    IF i > Len(pvs) THEN 0
    ELSE Mul(Consumed(pvs, i, q), pvs[i].Price) + ConsumedAmount(pvs, i + 1, q)

RECURSIVE TotalAmount(_)
TotalAmount(pvs) ==
    IF pvs = << >> THEN 0
    ELSE Mul(Head(pvs).Volume, Head(pvs).Price) + TotalAmount(Tail(pvs))

\* the reference: 0 for an empty side, the first level's price when its
\* volume covers q, otherwise the consumed amount divided by q
ReferencePrice(pvs, q) ==
    IF Len(pvs) = 0 THEN 0
    ELSE IF pvs[1].Volume >= q THEN pvs[1].Price
    ELSE (ConsumedAmount(pvs, 1, q) * Scale) \div q

AgreesWithReference(pvs, q, price) ==
    /\ price = ReferencePrice(pvs, q)
    /\ (Len(pvs) # 0 /\ TotalVolume(pvs) < q) => price = (TotalAmount(pvs) * Scale) \div q
    /\ (Len(pvs) # 0 /\ pvs[1].Volume < q) => q > 0

\* C17: aggregatePrice equals the reference for every side and every
\* quantity Q >= 0: 0 for an empty side, the first level's price when its
\* volume is at least Q, otherwise the sum of consumed volume x price divided
\* by Q, which for a total volume below Q is the sum over all levels divided
\* by Q; the division is never by zero
C17_EqualsReference ==
    (call.fn = "aggregatePrice" /\ call.done) =>
        /\ AgreesWithReference(call.pvs, call.q1, call.price1)
        /\ AgreesWithReference(call.pvs, call.q2, call.price2)

\* a side of MaxLevels levels that holds less than Q2: the price is the whole
\* amount over Q2, below every level's price; Q1 = 0 gives the first level
C17_Witness ==
    /\ call.fn = "aggregatePrice"
    /\ call.done
    /\ Len(call.pvs) = MaxLevels
    /\ call.q1 = 0
    /\ call.price1 = call.pvs[1].Price
    /\ TotalVolume(call.pvs) < call.q2
    /\ call.price2 > 0
    /\ \A i \in 1..Len(call.pvs) : call.price2 < call.pvs[i].Price

\* ------------------------------------------------------------------------
\* the layers of one quoting pass applied on their own to a configuration, a
\* source book and the two quota ledgers

MaxLayers == 3

\* three levels a side
DepthBook ==
    [bids |-> <<PV(13 * Scale, Scale), PV(12 * Scale, 2 * Scale), PV(11 * Scale, 3 * Scale)>>,
     asks |-> <<PV(14 * Scale, Scale), PV(15 * Scale, 2 * Scale), PV(16 * Scale, 3 * Scale)>>]

\* one level a side, less than the quantity of two layers
ThinBook == [bids |-> <<PV(13 * Scale, Scale)>>, asks |-> <<PV(14 * Scale, Scale)>>]

LayerBooks == {DepthBook, ThinBook, BookAt(HighPrice)}

LayerDepthQuantity == 3 * Scale

LayerMargin == 3

LayerConfigs ==
    {[DefaultConfig EXCEPT !.NumLayers = MaxLayers, !.UseDepthPrice = u,
                           !.DepthQuantity = d, !.QuantityMultiplier = qm,
                           !.BidMargin = mg, !.AskMargin = mg, !.Pips = pp] :
        u \in BOOLEAN, d \in {0, LayerDepthQuantity}, qm \in {0, two},
        mg \in {0, LayerMargin}, pp \in {0, 10 * Scale}}

Quota(base, quote) == QuotaAdd(QuotaAdd(NewQuota, "BaseAsset", base), "QuoteAsset", quote)

LayerQuotas == {Quota(AmpleBase, AmpleQuote), Quota(SomeBase, SomeQuote)}

InitLayers ==
    /\ InitIdle
    /\ \E cfg \in LayerConfigs, bk \in LayerBooks,
          makerQuota \in LayerQuotas, hedgeQuota \in LayerQuotas :
        call = [fn |-> "layers", cfg |-> cfg, sourceBook |-> bk,
                makerQuota |-> makerQuota, hedgeQuota |-> hedgeQuota,
                result |-> LayersStart(cfg, BestBid(bk).Price, BestAsk(bk).Price,
                                       makerQuota, hedgeQuota),
                done |-> FALSE]

\* the loop over the layers with both sides enabled and no band adjustment
layersCall ==
    /\ call.fn = "layers"
    /\ ~call.done
    /\ LET bestBidPrice == BestBid(call.sourceBook).Price
           bestAskPrice == BestAsk(call.sourceBook).Price
           m == BollMargins(call.cfg, NoBands, bestBidPrice, bestAskPrice)
       IN  call' = [call EXCEPT
                       !.result = Layers(call.cfg, m, call.sourceBook, FALSE, FALSE, 0,
                                         LayersStart(call.cfg, bestBidPrice, bestAskPrice,
                                                     call.makerQuota, call.hedgeQuota)),
                       !.done = TRUE]
    /\ UNCHANGED <<strategyVars, stream, streamLog, run, scanner>>

NextLayers == layersCall

SpecLayers == InitLayers /\ [][NextLayers]_vars

LayersDone == call.fn = "layers" /\ call.done

RECURSIVE QuantityOfLayer(_, _)
\* the quantity of layer i
QuantityOfLayer(cfg, i) ==
    IF i = 0 THEN cfg.Quantity ELSE NextLayerQuantity(cfg, QuantityOfLayer(cfg, i - 1))

RECURSIVE CumulativeQuantity(_, _)
\* the quantity of the layers 0..i
CumulativeQuantity(cfg, i) ==
    IF i = 0 THEN QuantityOfLayer(cfg, 0)
    ELSE CumulativeQuantity(cfg, i - 1) + QuantityOfLayer(cfg, i)

\* the reference price of layer i on one side
ReferenceOfLayer(cfg, pvs, best, i) ==
    IF cfg.UseDepthPrice
    THEN aggregatePrice(pvs, IF cfg.DepthQuantity > 0 THEN cfg.DepthQuantity
                             ELSE CumulativeQuantity(cfg, i))
    ELSE best

PipsStep(cfg) == Mul(cfg.Pips, TickSize)

\* C18: for every layer i the bid price is reference x (1 - bidMargin) - i x
\* pips x tickSize and the ask price is reference x (1 + askMargin) + i x pips
\* x tickSize, the margin applied once to the reference of the layer, with
\* and without useDepthPrice
C18_LayerPriceFormula ==
    LayersDone =>
        /\ \A k \in 1..Len(call.result.bidPrices) :
            call.result.bidPrices[k]
                = Mul(ReferenceOfLayer(call.cfg, call.sourceBook.bids,
                                       BestBid(call.sourceBook).Price, k - 1),
                      One - call.cfg.BidMargin)
                  - (k - 1) * PipsStep(call.cfg)
        /\ \A k \in 1..Len(call.result.askPrices) :
            call.result.askPrices[k]
                = Mul(ReferenceOfLayer(call.cfg, call.sourceBook.asks,
                                       BestAsk(call.sourceBook).Price, k - 1),
                      One + call.cfg.AskMargin)
                  + (k - 1) * PipsStep(call.cfg)

\* C19: consecutive layer prices of one pass are spaced by at least pips x
\* tickSize on both sides, for every configuration and every valid book
C19_LayerSpacing ==
    LayersDone =>
        /\ \A k \in 1..(Len(call.result.bidPrices) - 1) :
            call.result.bidPrices[k] - call.result.bidPrices[k + 1] >= PipsStep(call.cfg)
        /\ \A k \in 1..(Len(call.result.askPrices) - 1) :
            call.result.askPrices[k + 1] - call.result.askPrices[k] >= PipsStep(call.cfg)

RECURSIVE SumOrders(_, _, _)
\* the total quantity, or the total notional, of the orders of one side
SumOrders(orders, side, notional) ==
    IF orders = << >> THEN 0
    ELSE (IF Head(orders).side # side THEN 0
          ELSE IF notional THEN Mul(Head(orders).quantity, Head(orders).price)
          ELSE Head(orders).quantity)
         + SumOrders(Tail(orders), side, notional)

\* C20: after the layers each ledger's free amount is its initial amount
\* minus the committed locks, which are the locks of the submitted orders,
\* nothing stays locked and no free amount is negative: the bids' notional
\* is within the maker quote quota, the bids' quantity within the hedge base
\* quota, the asks' quantity within the maker base quota and the asks'
\* notional within the hedge quote quota; a rolled-back layer takes nothing
C20_QuotaConservation ==
    LayersDone =>
        LET r == call.result
        IN  /\ r.makerQuota.QuoteAsset.Available
                   = call.makerQuota.QuoteAsset.Available - SumOrders(r.submitOrders, "BUY", TRUE)
            /\ r.hedgeQuota.BaseAsset.Available
                   = call.hedgeQuota.BaseAsset.Available - SumOrders(r.submitOrders, "BUY", FALSE)
            /\ r.makerQuota.BaseAsset.Available
                   = call.makerQuota.BaseAsset.Available - SumOrders(r.submitOrders, "SELL", FALSE)
            /\ r.hedgeQuota.QuoteAsset.Available
                   = call.hedgeQuota.QuoteAsset.Available - SumOrders(r.submitOrders, "SELL", TRUE)
            /\ \A q \in {r.makerQuota, r.hedgeQuota} :
                /\ q.BaseAsset.Locked = 0
                /\ q.QuoteAsset.Locked = 0
                /\ q.BaseAsset.Available >= 0
                /\ q.QuoteAsset.Available >= 0

\* a pass that submitted a bid, rolled back a later bid layer whose maker
\* lock was taken while the hedge lock failed, and rolled back an ask layer
C20_Witness ==
    /\ LayersDone
    /\ SumOrders(call.result.submitOrders, "BUY", FALSE) > 0
    /\ Len(call.result.submitOrders) < 2 * MaxLayers
    /\ SumOrders(call.result.submitOrders, "SELL", FALSE) < CumulativeQuantity(call.cfg, MaxLayers - 1)
    /\ call.makerQuota = Quota(AmpleBase, AmpleQuote)
    /\ call.hedgeQuota = Quota(SomeBase, SomeQuote)
    /\ SumOrders(call.result.submitOrders, "BUY", FALSE) < CumulativeQuantity(call.cfg, MaxLayers - 1)

\* ------------------------------------------------------------------------
\* the quoting pass against scarce maker and source accounts

BaseOnly(base) == [c \in {"base"} |-> base]

\* a quote amount between the notional of the second and of the first bid
\* layer on BookAt(HighPrice)
BetweenLayers == HighPrice - TickSize * 10

MakerBalanceSets ==
    {NoBalance, BaseOnly(AmpleBase), Balances(MinQuantity, MinNotional),
     Balances(AmpleBase, BetweenLayers), Balances(AmpleBase, SomeQuote),
     Balances(AmpleBase, AmpleQuote)}

GateBalanceSets ==
    {NoBalance, Balances(SomeBase, SomeQuote), Balances(AmpleBase, AmpleQuote)}

\* an order quantity below the market minimums
SmallQuantity == (2 * Scale) \div 5

\* no reserve, a reserve that leaves less than one layer, a reserve that
\* leaves nothing of Balances(SomeBase, SomeQuote)
GateConfigs ==
    {[DefaultConfig EXCEPT !.NumLayers = 2, !.Quantity = quantity,
                           !.StopHedgeBaseBalance = stop.base,
                           !.StopHedgeQuoteBalance = stop.quote] :
        quantity \in {Scale, SmallQuantity},
        stop \in {[base |-> 0, quote |-> 0],
                  [base |-> Scale \div 2, quote |-> 5 * Scale],
                  [base |-> Scale, quote |-> 20 * Scale]}}

InitGates ==
    /\ Position = 0
    /\ CoveredPosition = 0
    /\ InitCommon
    /\ DisableHedge = TRUE
    /\ book = BookAt(HighPrice)
    /\ sourceBalances \in GateBalanceSets
    /\ config \in GateConfigs
    /\ makerBalances \in MakerBalanceSets
    /\ circuitBreakerHalted = FALSE

NextGates == QuotePass \/ AdvanceTime

SpecGates == InitGates /\ [][NextGates]_vars

RECURSIVE Admitted(_, _, _, _, _)
\* the layers of one side whose two locks succeed, taken in order from layer
\* i on against the free amounts of the two ledgers of that side
Admitted(reqA, reqB, i, freeA, freeB) ==
    IF i > Len(reqA) THEN << >>
    ELSE IF freeA > reqA[i] /\ freeB > reqB[i]
    THEN <<i>> \o Admitted(reqA, reqB, i + 1, freeA - reqA[i], freeB - reqB[i])
    ELSE Admitted(reqA, reqB, i + 1, freeA, freeB)

IsBuy(o) == o.side = "BUY"

IsSell(o) == o.side = "SELL"

\* a pass that gets as far as the layers: the cancel succeeded, the orders
\* are formatted, and the venue rejects the orders at the indexes `rejected`
LayeredPass(rejected) ==
    /\ updateQuote(FALSE, {}, NoBands, TRUE, rejected)
    /\ lastQuote'.outcome \in {"noOrders", "submitted"}

\* C21: a layer whose quota lock fails emits no order on that side, and every
\* other layer and the opposite side are still evaluated: the buy orders of
\* the pass are exactly the bid layers whose two locks succeed against what
\* the earlier submitted bid layers left, likewise the sell orders, in layer
\* order; a rejected order takes no other order of the batch with it, and a
\* pass in which no layer produced an order places nothing
C21_FailedLayerSkipped ==
    [][\A rejected \in RejectionSets : LayeredPass(rejected) =>
        LET maker == MakerGate(makerBalances)
            hedge == SourceGate(sourceBalances, config)
            bidOn == ~(maker.disableMakerBid \/ hedge.disableMakerBid)
            askOn == ~(maker.disableMakerAsk \/ hedge.disableMakerAsk)
            st    == Layers(config, BollMargins(config, NoBands, 0, 0), CopyDepth(book, 10),
                            ~bidOn, ~askOn, 0,
                            LayersStart(config, BestBid(book).Price, BestAsk(book).Price,
                                        NewQuota, NewQuota))
            qty(k)  == QuantityOfLayer(config, k - 1)
            bidReq  == [k \in 1..Len(st.bidPrices) |-> Mul(qty(k), st.bidPrices[k])]
            askReq  == [k \in 1..Len(st.askPrices) |-> Mul(qty(k), st.askPrices[k])]
            bidQty  == [k \in 1..Len(st.bidPrices) |-> qty(k)]
            askQty  == [k \in 1..Len(st.askPrices) |-> qty(k)]
            bids    == Admitted(bidReq, bidQty, 1, maker.quota.QuoteAsset.Available,
                                hedge.quota.BaseAsset.Available)
            asks    == Admitted(askQty, askReq, 1, maker.quota.BaseAsset.Available,
                                hedge.quota.QuoteAsset.Available)
            orders  == lastQuote'.submitOrders
            placed  == {o \in exchangeOrders' : o.venue = "maker"}
        IN  /\ bidOn => Len(st.bidPrices) = config.NumLayers
            /\ askOn => Len(st.askPrices) = config.NumLayers
            /\ SelectSeq(orders, IsBuy)
                   = [k \in 1..Len(bids) |->
                         SubmitOrder("BUY", FormatPrice(st.bidPrices[bids[k]]),
                                     TruncateQuantity(qty(bids[k])))]
            /\ SelectSeq(orders, IsSell)
                   = [k \in 1..Len(asks) |->
                         SubmitOrder("SELL", FormatPrice(st.askPrices[asks[k]]),
                                     TruncateQuantity(qty(asks[k])))]
            /\ Cardinality(placed) = Cardinality((1..Len(orders)) \ rejected)
            /\ (bids = << >> /\ asks = << >>) =>
                   (lastQuote'.outcome = "noOrders" /\ NothingPlaced)]_vars

\* the first bid layer failed its lock and emitted nothing, the second bid
\* layer and both ask layers were submitted in the same pass
C21_Witness ==
    /\ lastQuote.outcome = "submitted"
    /\ makerBalances = Balances(AmpleBase, BetweenLayers)
    /\ Len(SelectSeq(lastQuote.submitOrders, IsBuy)) = 1
    /\ Len(SelectSeq(lastQuote.submitOrders, IsSell)) = 2
    /\ \A k \in 1..Len(lastQuote.submitOrders) :
        lastQuote.submitOrders[k].side = "BUY" =>
            Mul(lastQuote.submitOrders[k].quantity, lastQuote.submitOrders[k].price)
                < BetweenLayers

\* what an account has available of a currency, nothing without an entry
AvailableOf(bal, c) == IF HasBalance(bal, c) THEN bal[c] ELSE 0

\* the maker orders of one side on the venue after a step that were not
\* there before it
NewMakerOrders(side) ==
    {o \in exchangeOrders' : o.venue = "maker" /\ o.side = side} \ exchangeOrders

\* C22: a quoting pass submits no ask while the maker account has at most
\* minQuantity of base available and no bid while it has at most minNotional
\* of quote available, an account without an entry for the currency included
C22_MakerBalanceGate ==
    [][QuotePass =>
        /\ AvailableOf(makerBalances, "base") <= MinQuantity =>
              /\ SelectSeq(lastQuote'.submitOrders, IsSell) = << >>
              /\ NewMakerOrders("SELL") = {}
        /\ AvailableOf(makerBalances, "quote") <= MinNotional =>
              /\ SelectSeq(lastQuote'.submitOrders, IsBuy) = << >>
              /\ NewMakerOrders("BUY") = {}]_vars

\* an account holding base only went through a pass that submitted asks and
\* no bid
C22_Witness ==
    /\ makerBalances = BaseOnly(AmpleBase)
    /\ lastQuote.outcome = "submitted"
    /\ SelectSeq(lastQuote.submitOrders, IsSell) # << >>
    /\ SelectSeq(lastQuote.submitOrders, IsBuy) = << >>

\* what the pass may hedge of a source currency under a stopHedge reserve
HedgeFund(c, stop, minimum) == AvailableOf(sourceBalances, c) - stop - minimum

\* C23: with stopHedgeBaseBalance > 0 the bid quantity submitted in a pass
\* totals at most the source base available minus the reserve minus
\* minQuantity, and no bid is submitted when that amount is not positive;
\* with stopHedgeQuoteBalance > 0 the ask notional likewise stays within the
\* source quote available minus the reserve minus minNotional
C23_StopHedgeReserve ==
    [][QuotePass =>
        LET orders    == lastQuote'.submitOrders
            baseFund  == HedgeFund("base", config.StopHedgeBaseBalance, MinQuantity)
            quoteFund == HedgeFund("quote", config.StopHedgeQuoteBalance, MinNotional)
        IN  /\ config.StopHedgeBaseBalance > 0 =>
                  /\ SumOrders(orders, "BUY", FALSE) <= Max(baseFund, 0)
                  /\ baseFund <= 0 => SelectSeq(orders, IsBuy) = << >>
            /\ config.StopHedgeQuoteBalance > 0 =>
                  /\ SumOrders(orders, "SELL", TRUE) <= Max(quoteFund, 0)
                  /\ quoteFund <= 0 => SelectSeq(orders, IsSell) = << >>]_vars

\* under a reserve that leaves room for one small layer only, a pass
\* submitted one bid and one ask of the two layers
C23_Witness ==
    /\ config.StopHedgeBaseBalance > 0
    /\ config.StopHedgeQuoteBalance > 0
    /\ sourceBalances = Balances(SomeBase, SomeQuote)
    /\ makerBalances = Balances(AmpleBase, AmpleQuote)
    /\ lastQuote.outcome = "submitted"
    /\ Len(SelectSeq(lastQuote.submitOrders, IsBuy)) = 1
    /\ Len(SelectSeq(lastQuote.submitOrders, IsSell)) = 1
    /\ config.NumLayers = 2

\* ------------------------------------------------------------------------
\* the coinbase stream handlers

\* the sequence check with a message of the latest sequence number let through
checkAndUpdateSequenceNumber_AcceptsEqual(map, msgType, productId, currentSeqNum) ==
    LET key       == SequenceKey(msgType, productId)
        latestSeq == IF key \in DOMAIN map THEN map[key] ELSE 0
    IN  IF latestSeq > currentSeqNum
        THEN [ok |-> FALSE, map |-> map]
        ELSE [ok |-> TRUE, map |-> MapPut(map, key, currentSeqNum)]

\* the sequence check that accepts every first message of a key
checkAndUpdateSequenceNumber_FirstAccepted(map, msgType, productId, currentSeqNum) ==
    LET key == SequenceKey(msgType, productId)
    IN  IF key \in DOMAIN map /\ map[key] >= currentSeqNum
        THEN [ok |-> FALSE, map |-> map]
        ELSE [ok |-> TRUE, map |-> MapPut(map, key, currentSeqNum)]

\* a key the map does not hold reads as 0
checkAndUpdateSequenceNumber(map, msgType, productId, currentSeqNum) ==
    LET key       == SequenceKey(msgType, productId)
        latestSeq == IF key \in DOMAIN map THEN map[key] ELSE 0
    IN  IF latestSeq >= currentSeqNum
        THEN [ok |-> FALSE, map |-> map]
        ELSE [ok |-> TRUE, map |-> MapPut(map, key, currentSeqNum)]

\* exisiting.Update(order): the cached order takes the fields of the update
OrderUpdate(exisiting, order) ==
    [exisiting EXCEPT !.IsWorking = order.IsWorking,
                      !.Status = IF order.Status = "" THEN @ ELSE order.Status]

updateWorkingOrders(map, order) ==
    IF order.UUID \in DOMAIN map
    THEN IF ~order.IsWorking
         THEN MapDelete(map, order.UUID)
         ELSE MapPut(map, order.UUID, OrderUpdate(map[order.UUID], order))
    ELSE MapPut(map, order.UUID, order)

\* what QueryOrder may answer for an order id: an error, or the order in the
\* state the venue has it in
RestResults == {"error", "NEW", "FILLED"}

\* the status a done message carries
DoneStatus(reason) == IF reason = "canceled" THEN "CANCELED" ELSE "FILLED"

\* the lookup made also on a stream that subscribed the full channel
retrieveOrderById_IgnoresChannel(st, orderId, rest) ==
    IF rest = "error"
    THEN [err |-> TRUE, st |-> [st EXCEPT !.log.queried = "error"]]
    ELSE LET order == StreamOrder(orderId, rest, rest = "NEW")
         IN  [err |-> FALSE,
              st  |-> [st EXCEPT !.log.queried = "found",
                                 !.stream.workingOrdersMap = updateWorkingOrders(@, order)]]

\* st is the pair [stream, log] a handler works on
retrieveOrderById(st, orderId, rest) ==
    IF ~st.stream.userOrderOnly
    THEN [err |-> TRUE, st |-> st]
    ELSE IF rest = "error"
    THEN [err |-> TRUE, st |-> [st EXCEPT !.log.queried = "error"]]
    ELSE LET order == StreamOrder(orderId, rest, rest = "NEW")
         IN  [err |-> FALSE,
              st  |-> [st EXCEPT !.log.queried = "found",
                                 !.stream.workingOrdersMap = updateWorkingOrders(@, order)]]

EmitOrderUpdate(st, order) ==
    [st EXCEPT !.log.emitted = order,
               !.log.terminal = IF order.Status \in {"FILLED", "CANCELED", "REJECTED"}
                                THEN @ \cup {order.UUID} ELSE @]

\* the handler waits for lockWorkingOrderMap
Blocked(st, handler) == [st EXCEPT !.stream.blocked = @ \cup {handler}]

\* the head of a handler of sequenced messages
Sequenced(msgType, productId, seq, orderId) ==
    LET chk == checkAndUpdateSequenceNumber(stream.lastSequenceMsgMap, msgType, productId, seq)
    IN  [ok |-> chk.ok,
         st |-> [stream |-> [stream EXCEPT !.lastSequenceMsgMap = chk.map],
                 log    |-> [streamLog EXCEPT
                                !.processed = IF chk.ok
                                              THEN [key |-> SequenceKey(msgType, productId),
                                                    seq |-> seq, order |-> orderId,
                                                    cleared |-> FALSE,
                                                    odd |-> ~streamLog.processed.odd]
                                              ELSE @,
                                !.emitted = NoUpdate,
                                !.queried = "none"]]]

\* the reader of the connection runs one message handler at a time
ReaderFree == stream.blocked \subseteq {"handleConnect", "handleDisconnect"}

Handled(st) ==
    /\ stream' = st.stream
    /\ streamLog' = st.log
    /\ UNCHANGED <<call, strategyVars, run, scanner>>

handleReceivedMessage(seq, productId, orderId, orderType) ==
    /\ ReaderFree
    /\ LET h == Sequenced("received", productId, seq, orderId)
           orderUpdate == StreamOrder(orderId, "NEW", TRUE)
       IN  Handled(IF ~h.ok \/ orderType = "stop" THEN h.st
                   ELSE IF stream.lockWorkingOrderMap # "free"
                   THEN Blocked(h.st, "handleReceivedMessage")
                   ELSE EmitOrderUpdate(
                            [h.st EXCEPT !.stream.workingOrdersMap =
                                             updateWorkingOrders(@, orderUpdate)],
                            orderUpdate))

handleOpenMessage(seq, productId, orderId, rest) ==
    /\ ReaderFree
    /\ LET h == Sequenced("open", productId, seq, orderId)
           found == orderId \in DOMAIN stream.workingOrdersMap
           r == retrieveOrderById(h.st, orderId, rest)
           orderUpdate == StreamOrder(orderId, "NEW", TRUE)
       IN  Handled(IF ~h.ok THEN h.st
                   ELSE IF stream.lockWorkingOrderMap # "free"
                   THEN Blocked(h.st, "handleOpenMessage")
                   ELSE IF found THEN EmitOrderUpdate(h.st, orderUpdate)
                   ELSE IF r.err THEN r.st
                   ELSE EmitOrderUpdate(r.st, orderUpdate))

handleDoneMessage(seq, productId, orderId, reason, rest) ==
    /\ ReaderFree
    /\ LET h == Sequenced("done", productId, seq, orderId)
           found == orderId \in DOMAIN stream.workingOrdersMap
           r == retrieveOrderById(h.st, orderId, rest)
           orderUpdate == StreamOrder(orderId, DoneStatus(reason), FALSE)
           done(st) == EmitOrderUpdate(
                           [st EXCEPT !.stream.workingOrdersMap =
                                          updateWorkingOrders(@, orderUpdate)],
                           orderUpdate)
       IN  Handled(IF ~h.ok THEN h.st
                   ELSE IF stream.lockWorkingOrderMap # "free"
                   THEN Blocked(h.st, "handleDoneMessage")
                   ELSE IF found THEN done(h.st)
                   ELSE IF r.err THEN r.st
                   ELSE done(r.st))

handleChangeMessage(seq, productId, orderId) ==
    /\ ReaderFree
    /\ LET h == Sequenced("change", productId, seq, orderId)
           found == orderId \in DOMAIN stream.workingOrdersMap
           orderUpdate == StreamOrder(orderId, "", TRUE)
       IN  Handled(IF ~h.ok THEN h.st
                   ELSE IF stream.lockWorkingOrderMap # "free"
                   THEN Blocked(h.st, "handleChangeMessage")
                   ELSE IF ~found THEN h.st
                   ELSE EmitOrderUpdate(
                            [h.st EXCEPT !.stream.workingOrdersMap =
                                             updateWorkingOrders(@, orderUpdate)],
                            orderUpdate))

handleActivateMessage(orderId, rest) ==
    /\ ReaderFree
    /\ LET st0 == [stream |-> stream,
                   log |-> [streamLog EXCEPT !.emitted = NoUpdate, !.queried = "none"]]
           found == orderId \in DOMAIN stream.workingOrdersMap
           r == retrieveOrderById(st0, orderId, rest)
           order == StreamOrder(orderId, "NEW", TRUE)
           activate(st) == EmitOrderUpdate(
                               [st EXCEPT !.stream.workingOrdersMap =
                                              updateWorkingOrders(@, order)],
                               order)
       IN  Handled(IF stream.lockWorkingOrderMap # "free"
                   THEN Blocked(st0, "handleActivateMessage")
                   ELSE IF found THEN activate(st0)
                   ELSE IF r.err THEN r.st
                   ELSE activate(r.st))

\* s.lastSequenceMsgMap = make(map[string]SequenceNumberType)
clearSequenceNumber(st) ==
    [st EXCEPT !.stream.lastSequenceMsgMap = EmptyMap,
               !.log.processed.cleared = TRUE,
               !.log.emitted = NoUpdate,
               !.log.queried = "none"]

\* the handler locks lockWorkingOrderMap, clears the sequence numbers, and
\* calls clearWorkingOrders, which locks lockWorkingOrderMap again: the lock
\* is exclusive and the handler is its holder, so the call waits for the
\* handler's own deferred Unlock
handleDisconnect ==
    /\ "handleDisconnect" \notin stream.blocked
    /\ LET st0 == [stream |-> stream, log |-> streamLog]
       IN  Handled(IF stream.lockWorkingOrderMap # "free"
                   THEN Blocked(st0, "handleDisconnect")
                   ELSE Blocked([clearSequenceNumber(st0) EXCEPT
                                    !.stream.lockWorkingOrderMap = "handleDisconnect"],
                                "handleDisconnect"))

\* the subscriptions are written, the two maps cleared, and the snapshot
\* goroutine started
handleConnect(subscribeFull) ==
    /\ "handleConnect" \notin stream.blocked
    /\ LET st0 == [stream |-> [stream EXCEPT !.userOrderOnly = ~subscribeFull],
                   log |-> streamLog]
           st1 == clearSequenceNumber(st0)
       IN  Handled(IF stream.lockWorkingOrderMap # "free"
                   THEN Blocked(st1, "handleConnect")
                   ELSE [st1 EXCEPT !.stream.workingOrdersMap = EmptyMap,
                                    !.stream.snapshotPending = TRUE])

\* an open order of the REST query as a types.Order: the exchange, the status,
\* the ids and the creation time are set, IsWorking keeps its zero value
toGlobalOrder(id) == StreamOrder(id, "NEW", FALSE)

RECURSIVE CacheOrders(_, _)
\* s.updateWorkingOrders(openOrders...)
CacheOrders(map, ids) ==
    IF ids = {} THEN map
    ELSE LET id == CHOOSE x \in ids : TRUE
         IN  CacheOrders(updateWorkingOrders(map, toGlobalOrder(id)), ids \ {id})

\* the goroutine of handleConnect: the open orders of the account are cached
\* unless the query fails
connectSnapshot(queryErr, openOrders) ==
    /\ stream.snapshotPending
    /\ stream.lockWorkingOrderMap = "free"
    /\ Handled([stream |-> [stream EXCEPT
                               !.snapshotPending = FALSE,
                               !.workingOrdersMap = IF queryErr THEN @
                                                    ELSE CacheOrders(@, openOrders)],
                log |-> streamLog])

Connect == \E subscribeFull \in BOOLEAN : handleConnect(subscribeFull)

Snapshot == \E queryErr \in BOOLEAN, openOrders \in SUBSET OrderIDs :
    connectSnapshot(queryErr, openOrders)

ReceivedMessage ==
    \E seq \in 1..MaxSeq, p \in ProductIDs, id \in OrderIDs, orderType \in {"limit", "stop"} :
        handleReceivedMessage(seq, p, id, orderType)

OpenMessage ==
    \E seq \in 1..MaxSeq, p \in ProductIDs, id \in OrderIDs, rest \in RestResults :
        handleOpenMessage(seq, p, id, rest)

DoneMessage ==
    \E seq \in 1..MaxSeq, p \in ProductIDs, id \in OrderIDs,
       reason \in {"filled", "canceled"}, rest \in RestResults :
        handleDoneMessage(seq, p, id, reason, rest)

ChangeMessage ==
    \E seq \in 1..MaxSeq, p \in ProductIDs, id \in OrderIDs : handleChangeMessage(seq, p, id)

ActivateMessage ==
    \E id \in OrderIDs, rest \in RestResults : handleActivateMessage(id, rest)

InitStream == InitIdle /\ call = NoCall

NextStream ==
    \/ Connect
    \/ Snapshot
    \/ handleDisconnect
    \/ ReceivedMessage
    \/ OpenMessage
    \/ DoneMessage
    \/ ChangeMessage
    \/ ActivateMessage

SpecStream == InitStream /\ [][NextStream]_vars

\* a step in which a message passed the sequence check
Processing ==
    /\ streamLog'.processed # streamLog.processed
    /\ ~streamLog'.processed.cleared

\* C24 as stated: for each (messageType, productId) key the sequence numbers
\* of the processed messages are strictly increasing over the whole run,
\* across connects and disconnects: a message processed after another of the
\* same key has the higher sequence number
C24_IncreasingOverRun ==
    [][(Processing /\ streamLog'.processed.key = streamLog.processed.key) =>
           streamLog'.processed.seq > streamLog.processed.seq]_vars

\* C24: for each (messageType, productId) key the sequence numbers of the
\* messages processed between two clears of the sequence number map, that is
\* within one connection, are strictly increasing, and the map holds the
\* sequence number of the key's last processed message
C24_IncreasingWithinConnection ==
    [][Processing =>
          LET key == streamLog'.processed.key
              seq == streamLog'.processed.seq
              map == stream.lastSequenceMsgMap
          IN  /\ stream'.lastSequenceMsgMap = MapPut(map, key, seq)
              /\ key \in DOMAIN map => seq > map[key]
              /\ (key = streamLog.processed.key /\ ~streamLog.processed.cleared) =>
                     (key \in DOMAIN map /\ map[key] = streamLog.processed.seq)]_vars

\* an even number of messages passed the check, the last with the highest
\* sequence number drawn, and the map of a connected stream holds its key only
C24_Witness ==
    /\ streamLog.processed.seq = MaxSeq
    /\ ~streamLog.processed.cleared
    /\ ~streamLog.processed.odd
    /\ stream.userOrderOnly
    /\ stream.lockWorkingOrderMap = "free"
    /\ Cardinality(DOMAIN stream.lastSequenceMsgMap) = 1

\* C25: for every order id the order updates emitted never move from a
\* terminal status (filled, canceled, rejected) back to new or partially
\* filled, whatever the arrival order of the messages: an update with status
\* new or partially filled is not emitted for an order for which a terminal
\* update was emitted before
C25_TerminalIsFinal ==
    [][streamLog'.emitted.Status \in {"NEW", "PARTIALLY_FILLED"} =>
           streamLog'.emitted.UUID \notin streamLog.terminal]_vars

\* C26: handleDisconnect returns with its lock released and both maps empty,
\* and no handler is left waiting for a lock
C26_DisconnectReturns ==
    [][/\ stream'.blocked = {}
       /\ handleDisconnect =>
              /\ stream'.lockWorkingOrderMap = "free"
              /\ stream'.lastSequenceMsgMap = EmptyMap
              /\ stream'.workingOrdersMap = EmptyMap]_vars

\* a message of one of the types passed the sequence check, found the lock
\* free and its order not in the cache
UncachedMessage(msgTypes) ==
    /\ Processing
    /\ streamLog'.processed.key[1] \in msgTypes
    /\ stream.lockWorkingOrderMap = "free"
    /\ streamLog'.processed.order \notin DOMAIN stream.workingOrdersMap

\* the message was skipped: nothing emitted and the cache as before
Skipped ==
    /\ streamLog'.emitted = NoUpdate
    /\ streamLog'.terminal = streamLog.terminal
    /\ stream'.workingOrdersMap = stream.workingOrdersMap

\* C30: an open or done message for an order that is not in the working
\* order cache makes one REST lookup unless the stream subscribed the full
\* channel, and is skipped when the lookup fails or is not made; a change
\* message for such an order is skipped without a lookup
C30_UncachedOrderSkipped ==
    [][/\ UncachedMessage({"open", "done"}) =>
            /\ streamLog'.queried = "none" <=> ~stream.userOrderOnly
            /\ streamLog'.queried \in {"none", "error"} => Skipped
       /\ UncachedMessage({"change"}) =>
            (streamLog'.queried = "none" /\ Skipped)]_vars

\* an open or done message passed the check on a stream of user orders, its
\* lookup failed, and nothing was emitted or cached
C30_Witness ==
    /\ stream.userOrderOnly
    /\ streamLog.processed.key \in {SequenceKey("open", p) : p \in ProductIDs}
                                   \cup {SequenceKey("done", p) : p \in ProductIDs}
    /\ ~streamLog.processed.cleared
    /\ streamLog.queried = "error"
    /\ streamLog.emitted = NoUpdate
    /\ stream.workingOrdersMap = EmptyMap
    /\ ~stream.snapshotPending

\* ------------------------------------------------------------------------
\* the start of the strategy

\* what CrossRun finds: the sessions and markets defined, the profit fixer
\* configuration (none, tradesSince zero, tradesSince set), whether the fixer
\* fails, and the recoverTrade setting
StartInputs ==
    [sourceSession : BOOLEAN, makerSession : BOOLEAN,
     sourceMarket : BOOLEAN, makerMarket : BOOLEAN,
     ProfitFixerConfig : {"nil", "zero", "set"}, fixErr : BOOLEAN,
     RecoverTrade : BOOLEAN]

Aborted(err) == [err |-> err, streams |-> {}, workers |-> {}, stopC |-> "nil"]

\* the start with a profit fixer whose tradesSince is zero let through
CrossRun_IgnoresTradesSince(in) ==
    IF ~in.sourceSession THEN Aborted("source exchange session is not defined")
    ELSE IF ~in.makerSession THEN Aborted("maker exchange session is not defined")
    ELSE IF ~in.sourceMarket THEN Aborted("source session market is not defined")
    ELSE IF ~in.makerMarket THEN Aborted("maker session market is not defined")
    ELSE IF in.ProfitFixerConfig # "nil" /\ in.fixErr
    THEN Aborted("fixer.Fix")
    ELSE [err     |-> "",
          streams |-> {<<"book", "source.MarketDataStream">>,
                       <<"activeMakerOrders", "maker.UserDataStream">>,
                       <<"orderStore", "source.UserDataStream">>,
                       <<"orderStore", "maker.UserDataStream">>,
                       <<"tradeCollector", "source.UserDataStream">>,
                       <<"tradeCollector", "maker.UserDataStream">>},
          workers |-> {"hedgeWorker", "quoteWorker"}
                          \cup (IF in.RecoverTrade THEN {"tradeRecover"} ELSE {}),
          stopC   |-> "open"]

\* the error returns of CrossRun come before the first BindStream and the
\* go statements
CrossRun(in) ==
    IF ~in.sourceSession THEN Aborted("source exchange session is not defined")
    ELSE IF ~in.makerSession THEN Aborted("maker exchange session is not defined")
    ELSE IF ~in.sourceMarket THEN Aborted("source session market is not defined")
    ELSE IF ~in.makerMarket THEN Aborted("maker session market is not defined")
    ELSE IF in.ProfitFixerConfig = "zero" THEN Aborted("tradesSince time can not be zero")
    ELSE IF in.ProfitFixerConfig = "set" /\ in.fixErr THEN Aborted("fixer.Fix")
    ELSE [err     |-> "",
          streams |-> {<<"book", "source.MarketDataStream">>,
                       <<"activeMakerOrders", "maker.UserDataStream">>,
                       <<"orderStore", "source.UserDataStream">>,
                       <<"orderStore", "maker.UserDataStream">>,
                       <<"tradeCollector", "source.UserDataStream">>,
                       <<"tradeCollector", "maker.UserDataStream">>},
          workers |-> {"hedgeWorker", "quoteWorker"}
                          \cup (IF in.RecoverTrade THEN {"tradeRecover"} ELSE {}),
          stopC   |-> "open"]

InitStart ==
    /\ InitIdle
    /\ \E in \in StartInputs :
        call = [fn |-> "CrossRun", in |-> in, result |-> Aborted(""), done |-> FALSE]

CrossRunCall ==
    /\ call.fn = "CrossRun"
    /\ ~call.done
    /\ call' = [call EXCEPT !.result = CrossRun(call.in), !.done = TRUE]
    /\ UNCHANGED <<strategyVars, stream, streamLog, run, scanner>>

NextStart == CrossRunCall

SpecStart == InitStart /\ [][NextStart]_vars

\* C29: CrossRun returns an error, having bound no stream and launched no
\* worker, when the source session, the maker session, the source market or
\* the maker market is not defined, or when the profit fixer is configured
\* with a zero tradesSince
C29_StartAborts ==
    (call.fn = "CrossRun" /\ call.done) =>
        ((\/ ~call.in.sourceSession
          \/ ~call.in.makerSession
          \/ ~call.in.sourceMarket
          \/ ~call.in.makerMarket
          \/ call.in.ProfitFixerConfig = "zero") =>
            /\ call.result.err # ""
            /\ call.result.streams = {}
            /\ call.result.workers = {}
            /\ call.result.stopC = "nil")

\* both sessions and markets are defined and the profit fixer has a zero
\* tradesSince: the start returned its error
C29_Witness ==
    /\ call.fn = "CrossRun"
    /\ call.done
    /\ call.in.sourceSession /\ call.in.makerSession
    /\ call.in.sourceMarket /\ call.in.makerMarket
    /\ call.in.ProfitFixerConfig = "zero"
    /\ call.result.err = "tradesSince time can not be zero"
    /\ call.result.workers = {}

\* C28: activeMakerOrders holds orders of the maker venue only: a hedge
\* order, placed on the source venue, never enters it
C28_MakerOrdersOnly == \A o \in activeMakerOrders : o.venue = "maker"

\* ------------------------------------------------------------------------
\* shutdown

\* case <-ticker.C of quoteWorker: the select may take the ticker also when
\* stopC is closed, and a pass started before the close ends after it
quoteWorkerPass ==
    /\ run.quoteWorker = "running"
    /\ run.shutdown # "done"
    /\ QuotePassAccepted

\* s.activeMakerOrders.GracefulCancel with the cancels succeeding
GracefulCancel ==
    /\ activeMakerOrders' = {}
    /\ exchangeOrders' = AfterCancel(exchangeOrders, activeMakerOrders)

\* case <-s.stopC of quoteWorker: the loop returns and its deferred
\* GracefulCancel runs
quoteWorkerStop ==
    /\ run.quoteWorker = "running"
    /\ run.stopC = "closed"
    /\ run.shutdown # "done"
    /\ GracefulCancel
    /\ run' = [run EXCEPT !.quoteWorker = "stopped"]
    /\ UNCHANGED <<call, stream, streamLog, scanner, Position, CoveredPosition, DisableHedge, lastPrice,
                   book, sourceBalances, hedgeErrorLimiter, hedgeErrorRateReservation,
                   tradeStore, nextOrderID, numTrades, lastHedge, initialUncovered,
                   quoteVars>>

\* the shutdown callback: close(s.stopC), then the sleep of one updateInterval
OnShutdownClose ==
    /\ run.shutdown = "idle"
    /\ run' = [run EXCEPT !.stopC = "closed", !.shutdown = "sleeping"]
    /\ UNCHANGED <<call, stream, streamLog, scanner, strategyVars>>

\* the shutdown callback after its sleep: GracefulCancel
OnShutdownCancel ==
    /\ run.shutdown = "sleeping"
    /\ GracefulCancel
    /\ run' = [run EXCEPT !.shutdown = "cancelled"]
    /\ UNCHANGED <<call, stream, streamLog, scanner, Position, CoveredPosition, DisableHedge, lastPrice,
                   book, sourceBalances, hedgeErrorLimiter, hedgeErrorRateReservation,
                   tradeStore, nextOrderID, numTrades, lastHedge, initialUncovered,
                   quoteVars>>

\* the shutdown callback returns: Notify, wg.Done
OnShutdownDone ==
    /\ run.shutdown = "cancelled"
    /\ run' = [run EXCEPT !.shutdown = "done"]
    /\ UNCHANGED <<call, stream, streamLog, scanner, strategyVars>>

InitShutdown == InitGates

NextShutdown ==
    \/ quoteWorkerPass
    \/ quoteWorkerStop
    \/ OnShutdownClose
    \/ OnShutdownCancel
    \/ OnShutdownDone

SpecShutdown == InitShutdown /\ [][NextShutdown]_vars

\* C27: once the shutdown callback has returned, its graceful cancels having
\* succeeded, no maker order is active, also when a quoting pass was in
\* flight at the close of stopC or took longer than one updateInterval
C27_NoOrderAfterShutdown ==
    run.shutdown = "done" =>
        /\ activeMakerOrders = {}
        /\ {o \in exchangeOrders : o.venue = "maker"} = {}

\* ------------------------------------------------------------------------
\* the response of a futures batch order request

\* items of a batch response
MaxItems == 3

\* a raw item of the response: an API error object, the object of a placed
\* order, or a value that is not an object
RawItems ==
    {[object |-> TRUE, code |-> -2010, msg |-> "rejected", orderId |-> 0],
     [object |-> TRUE, code |-> 0, msg |-> "", orderId |-> 7],
     [object |-> TRUE, code |-> 0, msg |-> "", orderId |-> 8],
     [object |-> FALSE, code |-> 0, msg |-> "", orderId |-> 0]}

RawMessages == UNION {[1..n -> RawItems] : n \in 0..MaxItems}

\* the zero value of FuturesOrderResponse and the nil error
ZeroOrderResponse == [orderId |-> 0]

NilError == [code |-> 0, msg |-> ""]

IsAPIError(item) == item.object /\ (item.code # 0 \/ item.msg # "")

MakeSlice(n, zero) == [i \in 1..n |-> zero]

RECURSIVE UnmarshalItems(_, _, _)
\* the loop over rawMsgs from item i on
UnmarshalItems(rawMsgs, i, f) ==
    IF i > Len(rawMsgs) THEN f
    ELSE IF IsAPIError(rawMsgs[i])
    THEN UnmarshalItems(rawMsgs, i + 1,
             [f EXCEPT !.Errors[i] = [code |-> rawMsgs[i].code, msg |-> rawMsgs[i].msg]])
    ELSE IF ~rawMsgs[i].object
    THEN [f EXCEPT !.err = i]
    ELSE UnmarshalItems(rawMsgs, i + 1,
             [f EXCEPT !.Orders = Append(@, [orderId |-> rawMsgs[i].orderId])])

\* err is 0 for a nil return, else the index of the item that failed
Unmarshal(rawMsgs) ==
    UnmarshalItems(rawMsgs, 1,
        [err    |-> 0,
         Errors |-> MakeSlice(Len(rawMsgs), NilError),
         Orders |-> MakeSlice(Len(rawMsgs), ZeroOrderResponse)])

InitBatch ==
    /\ InitIdle
    /\ \E rawMsgs \in RawMessages :
        call = [fn |-> "Unmarshal", data |-> rawMsgs, f |-> Unmarshal(<< >>), done |-> FALSE]

UnmarshalCall ==
    /\ call.fn = "Unmarshal"
    /\ ~call.done
    /\ call' = [call EXCEPT !.f = Unmarshal(call.data), !.done = TRUE]
    /\ UNCHANGED <<strategyVars, stream, streamLog, run, scanner>>

NextBatch == UnmarshalCall

SpecBatch == InitBatch /\ [][NextBatch]_vars

\* C31: for a response of N items Errors has N entries, non-nil exactly at
\* the items that are API errors, and Orders holds the placed orders only:
\* at most N entries, none of them a zero value, the order of item i at
\* index i
C31_PerIndexAssignment ==
    (call.fn = "Unmarshal" /\ call.done /\ call.f.err = 0) =>
        LET n == Len(call.data)
        IN  /\ Len(call.f.Errors) = n
            /\ \A i \in 1..n : (call.f.Errors[i] # NilError) <=> IsAPIError(call.data[i])
            /\ Len(call.f.Orders) <= n
            /\ \A i \in 1..Len(call.f.Orders) : call.f.Orders[i] # ZeroOrderResponse
            /\ \A i \in 1..n : ~IsAPIError(call.data[i]) =>
                   /\ i <= Len(call.f.Orders)
                   /\ call.f.Orders[i] = [orderId |-> call.data[i].orderId]

\* ---------------------------------------------------------------------
\* tradeRecover: the recovery scanner. Time is counted in minutes.

MaxScans == 3
MaxLateness == 6

\* tradeScanInterval when RecoverTradeScanPeriod is zero
DefaultScanPeriod == 30
tradeScanOverlapBufferPeriod == 5

\* the configured recoverTradeScanPeriod: unset, or ten minutes
ScanPeriods == {0, 10}

RecoverResults == {"ok", "error"}

tradeScanInterval(period) == IF period = 0 THEN DefaultScanPeriod ELSE period

\* the start of a scan that forgets the overlap buffer
startTime_NoBuffer(now, interval) == now - interval

\* time.Now().Add(-tradeScanInterval).Add(-tradeScanOverlapBufferPeriod)
startTime(now, interval) == now - interval - tradeScanOverlapBufferPeriod

\* one tick of the ticker, received `lateness` minutes after it was due (the
\* goroutine was still in the scan before, or was scheduled late): the clock
\* is read when the tick is handled. Both recoveries run from the same start
\* time, each error is logged and nothing else.
tradeRecoverTick(lateness, sourceErr, makerErr) ==
    /\ scanner.started = "running"
    /\ scanner.ticks < MaxScans
    /\ LET interval == tradeScanInterval(scanner.RecoverTradeScanPeriod)
           now == scanner.due + lateness
           scan == [startTime |-> startTime(now, interval), now |-> now,
                    source |-> sourceErr, maker |-> makerErr]
       IN scanner' = IF scanner.RecoverTrade
                     THEN [scanner EXCEPT !.due = @ + interval, !.ticks = @ + 1,
                                          !.prev = scanner.last, !.last = scan,
                                          !.scans = @ + 1]
                     ELSE [scanner EXCEPT !.due = @ + interval, !.ticks = @ + 1]
    /\ UNCHANGED <<call, stream, streamLog, run, strategyVars>>

TradeRecoverTick ==
    \E lateness \in 0..MaxLateness, sourceErr \in RecoverResults, makerErr \in RecoverResults :
        tradeRecoverTick(lateness, sourceErr, makerErr)

\* CrossRun: go s.tradeRecover(ctx) when recoverTrade is set; the ticker's
\* first tick is due one interval after its creation
startTradeRecover(recoverTrade, period) ==
    /\ scanner.started = "pending"
    /\ scanner' = [scanner EXCEPT !.started = IF recoverTrade THEN "running" ELSE "never",
                                  !.RecoverTrade = recoverTrade,
                                  !.RecoverTradeScanPeriod = period,
                                  !.due = tradeScanInterval(period)]
    /\ UNCHANGED <<call, stream, streamLog, run, strategyVars>>

StartTradeRecover ==
    \E recoverTrade \in BOOLEAN, period \in ScanPeriods :
        startTradeRecover(recoverTrade, period)

InitRecover == InitIdle /\ call = NoCall

NextRecover == StartTradeRecover \/ TradeRecoverTick

SpecRecover == InitRecover /\ [][NextRecover]_vars

Scanned == scanner.scans >= 1

Rescanned == scanner.scans >= 2

\* the time the window of the latest scan shares with the window before it
ScanOverlap == scanner.prev.now - scanner.last.startTime

\* the time between the clock readings of the two latest scans
ScanDistance == scanner.last.now - scanner.prev.now

BothVenuesRecovered == scanner.last.source # "none" /\ scanner.last.maker # "none"

\* C32 as stated: every scan runs only with recoverTrade set and replays both
\* venues from now - period - 5 minutes, whatever the source recovery returned,
\* and two consecutive scan windows overlap by at least 5 minutes.
C32_OverlapAtLeastBuffer ==
    /\ Scanned => scanner.RecoverTrade /\ BothVenuesRecovered
    /\ Rescanned => ScanOverlap >= tradeScanOverlapBufferPeriod

\* C32 amended: every scan runs only with recoverTrade set and replays both
\* venues from now - period - 5 minutes, whatever the source recovery returned;
\* two consecutive windows overlap by the period plus 5 minutes less the time
\* between the two scans, so they leave no uncovered instant whenever the
\* later scan reads the clock at most period + 5 minutes after the earlier.
C32_OverlapLessLateness ==
    LET interval == tradeScanInterval(scanner.RecoverTradeScanPeriod)
    IN /\ Scanned =>
            /\ scanner.RecoverTrade
            /\ BothVenuesRecovered
            /\ scanner.last.startTime =
                   scanner.last.now - interval - tradeScanOverlapBufferPeriod
       /\ Rescanned =>
            /\ ScanOverlap = interval + tradeScanOverlapBufferPeriod - ScanDistance
            /\ ScanDistance <= interval + tradeScanOverlapBufferPeriod
                   => scanner.last.startTime <= scanner.prev.now

\* a late scan after a failed source recovery: the maker venue was recovered
\* and the window still reaches back to the scan before
C32_Witness ==
    /\ Rescanned
    /\ scanner.last.source = "error"
    /\ scanner.last.maker = "ok"
    /\ ScanDistance > tradeScanInterval(scanner.RecoverTradeScanPeriod)
    /\ scanner.last.startTime <= scanner.prev.now

\* ---------------------------------------------------------------------
\* The margin hedge gate. Quote amounts are counted in thousands of USDT.

\* the price of the test: 98,000 USDT
MarginPrice == 98 * Scale

\* minMarginLevel 1.7 of the test, the level 1.010 of its low account, and a
\* level no account of MarginAccounts reaches
MinMarginLevels == {(17 * Scale) \div 10, (101 * Scale) \div 100, 50 * Scale}

MarginBalance(available, borrowed) == [Available |-> available, Borrowed |-> borrowed]

\* the accounts of the test (BTC 2 available with 1 or 4 borrowed, USDT
\* 200,000 available) and their neighbours
MarginAccounts ==
    {[base |-> MarginBalance(a * Scale, b * Scale), quote |-> MarginBalance(q * Scale, 0)] :
        a \in 1..3, b \in {0, 1, 4}, q \in {100, 200}}

\* accountValueCalc.DebtValue(): the borrowed amounts at the price
DebtValue(account, price) == Mul(account.base.Borrowed, price) + account.quote.Borrowed

\* accountValueCalc.NetValue(): available less borrowed, at the price
NetValue(account, price) ==
    Mul(account.base.Available - account.base.Borrowed, price)
        + account.quote.Available - account.quote.Borrowed

TotalEquity(account, price) == NetValue(account, price) + DebtValue(account, price)

\* the current margin level, total equity over debt, is below the minimum
\* (never with no debt: the level is then infinite)
BelowMinMarginLevel(account, price, minMarginLevel) ==
    /\ DebtValue(account, price) > 0
    /\ Div(TotalEquity(account, price), DebtValue(account, price)) < minMarginLevel

\* the borrow quota in quote units: max(0, total / minMarginLevel - debt)
BorrowQuota(account, price, minMarginLevel) ==
    Max(0, Div(TotalEquity(account, price), minMarginLevel) - DebtValue(account, price))

\* the gate that also denies a level equal to the minimum
allowMarginHedge_DeniesAtMinimum(side, account, price, minMarginLevel) ==
    IF DebtValue(account, price) > 0
       /\ Div(TotalEquity(account, price), DebtValue(account, price)) <= minMarginLevel
    THEN IF side = "buy" THEN [allowed |-> FALSE, quota |-> 0]
         ELSE [allowed |-> TRUE, quota |-> Div(account.quote.Available, price)]
    ELSE IF side = "buy"
         THEN [allowed |-> TRUE, quota |-> BorrowQuota(account, price, minMarginLevel)]
         ELSE [allowed |-> TRUE, quota |-> Div(BorrowQuota(account, price, minMarginLevel), price)]

\* s.allowMarginHedge(side). Below the minimum level a buy is denied and a
\* sell is allowed with the quota the test asserts for its low account, 2.04
\* BTC for 200,000 USDT at 98,000: the available quote balance in base units.
allowMarginHedge(side, account, price, minMarginLevel) ==
    IF BelowMinMarginLevel(account, price, minMarginLevel)
    THEN IF side = "buy" THEN [allowed |-> FALSE, quota |-> 0]
         ELSE [allowed |-> TRUE, quota |-> Div(account.quote.Available, price)]
    ELSE IF side = "buy"
         THEN [allowed |-> TRUE, quota |-> BorrowQuota(account, price, minMarginLevel)]
         ELSE [allowed |-> TRUE, quota |-> Div(BorrowQuota(account, price, minMarginLevel), price)]

InitMargin ==
    /\ InitIdle
    /\ \E side \in {"buy", "sell"}, account \in MarginAccounts, m \in MinMarginLevels :
          call = [fn |-> "allowMarginHedge", side |-> side, account |-> account,
                  MinMarginLevel |-> m, allowed |-> FALSE, quota |-> 0, done |-> FALSE]

AllowMarginHedgeCall ==
    /\ call.fn = "allowMarginHedge"
    /\ ~call.done
    /\ LET r == allowMarginHedge(call.side, call.account, MarginPrice, call.MinMarginLevel)
       IN call' = [call EXCEPT !.allowed = r.allowed, !.quota = r.quota, !.done = TRUE]
    /\ UNCHANGED <<strategyVars, stream, streamLog, run, scanner>>

NextMargin == AllowMarginHedgeCall

SpecMargin == InitMargin /\ [][NextMargin]_vars

MarginGateCalled == call.fn = "allowMarginHedge" /\ call.done

CallBelowMinimum == BelowMinMarginLevel(call.account, MarginPrice, call.MinMarginLevel)

\* the low account of the test: BTC 2 available and 4 borrowed, USDT 200,000,
\* minMarginLevel 1.7
LowMarginAccount ==
    /\ call.account = [base |-> MarginBalance(2 * Scale, 4 * Scale),
                       quote |-> MarginBalance(200 * Scale, 0)]
    /\ call.MinMarginLevel = (17 * Scale) \div 10

C34_InvalidBookKeepsLastPrice ==
    [][(QuotePass /\ lastQuote'.outcome = "invalidBook")
          => /\ lastPrice' = lastPrice
             /\ activeMakerOrders' \subseteq activeMakerOrders
             /\ exchangeOrders' \subseteq exchangeOrders]_vars

\* ---------------------------------------------------------------------
\* the working-order cache after a connect

\* C35: once the open-orders snapshot of a connect is applied, every order the
\* query returned is in the working-order cache, also when a received message
\* cached the order between the connect and the snapshot.
C35_SnapshotOrdersCached ==
    [][\A openOrders \in SUBSET OrderIDs :
          connectSnapshot(FALSE, openOrders)
              => openOrders \subseteq DOMAIN stream'.workingOrdersMap]_vars

\* C36: an order whose done message was processed is not in the working-order
\* cache, under every interleaving of the message handlers with connects,
\* disconnects, snapshots and REST lookups.
C36_DoneOrdersNotCached ==
    \A id \in streamLog.terminal : id \notin DOMAIN stream.workingOrdersMap

\* ---------------------------------------------------------------------
\* the sequence check under lockSeqNumMap, called by the handlers of two
\* goroutines

MaxSequence == 2

Goroutines == {1, 2}

SequencedTypes == {"ticker", "match"}

NoCheck == [key |-> << >>, seq |-> 0, state |-> "idle", ok |-> FALSE,
            prior |-> {}, before |-> EmptyMap, after |-> EmptyMap]

\* accepted: the <<key, sequence number>> pairs accepted since the last reset
NewSequenceCheck ==
    [fn |-> "checkAndUpdateSequenceNumber", lockSeqNumMap |-> 0,
     msg |-> [g \in Goroutines |-> NoCheck], accepted |-> {}]

\* the sequence numbers accepted for a key since the last reset
AcceptedFor(key) == {p[2] : p \in {q \in call.accepted : q[1] = key}}

\* handleTickerMessage, handleMatchMessage: the handler enters
\* checkAndUpdateSequenceNumber and takes lockSeqNumMap
sequenceLock(g, msgType, productId, seq) ==
    /\ call.fn = "checkAndUpdateSequenceNumber"
    /\ call.lockSeqNumMap = 0
    /\ call' = [call EXCEPT !.lockSeqNumMap = g,
                            !.msg[g] = [NoCheck EXCEPT !.key = SequenceKey(msgType, productId),
                                                       !.seq = seq, !.state = "locked"]]
    /\ UNCHANGED <<strategyVars, stream, streamLog, run, scanner>>

\* the body of checkAndUpdateSequenceNumber and its deferred Unlock
sequenceCheck(g) ==
    /\ call.fn = "checkAndUpdateSequenceNumber"
    /\ call.lockSeqNumMap = g
    /\ LET m   == call.msg[g]
           chk == checkAndUpdateSequenceNumber(stream.lastSequenceMsgMap,
                                               m.key[1], m.key[2], m.seq)
       IN  /\ stream' = [stream EXCEPT !.lastSequenceMsgMap = chk.map]
           /\ call' = [call EXCEPT
                         !.lockSeqNumMap = 0,
                         !.msg[g] = [m EXCEPT !.state = "done", !.ok = chk.ok,
                                              !.prior = AcceptedFor(m.key),
                                              !.before = stream.lastSequenceMsgMap,
                                              !.after = chk.map],
                         !.accepted = IF chk.ok THEN @ \cup {<<m.key, m.seq>>} ELSE @]
    /\ UNCHANGED <<strategyVars, streamLog, run, scanner>>

\* clearSequenceNumber of a connect or a disconnect, under the same lock
sequenceReset ==
    /\ call.fn = "checkAndUpdateSequenceNumber"
    /\ call.lockSeqNumMap = 0
    /\ stream' = [stream EXCEPT !.lastSequenceMsgMap = EmptyMap]
    /\ call' = [call EXCEPT !.accepted = {},
                            !.msg = [g \in Goroutines |-> NoCheck]]
    /\ UNCHANGED <<strategyVars, streamLog, run, scanner>>

SequenceLock ==
    \E g \in Goroutines, msgType \in SequencedTypes, p \in ProductIDs, seq \in 0..MaxSequence :
        sequenceLock(g, msgType, p, seq)

SequenceCheck == \E g \in Goroutines : sequenceCheck(g)

InitSequence == InitIdle /\ call = NewSequenceCheck

NextSequence == SequenceLock \/ SequenceCheck \/ sequenceReset

SpecSequence == InitSequence /\ [][NextSequence]_vars

Checked(g) == call.fn = "checkAndUpdateSequenceNumber" /\ call.msg[g].state = "done"

\* C37 as stated: a message is accepted if and only if its sequence number is
\* greater than every sequence number accepted for its key since the last
\* reset, so the first message of a key is accepted also with the number 0; a
\* rejected message leaves the cursor unchanged, and of two messages with the
\* same key and number at most one is accepted.
C37_AcceptedIffGreater ==
    \A g \in Goroutines :
        Checked(g) =>
            LET m == call.msg[g]
            IN  /\ m.ok <=> \A s \in m.prior : m.seq > s
                /\ ~m.ok => m.after = m.before
                /\ m.ok => m.seq \notin m.prior

\* C37 amended: a key without an accepted message since the last reset has the
\* cursor 0, and a message is accepted if and only if its sequence number is
\* greater than 0 and greater than every sequence number accepted for its key
\* since the last reset: the first message of a key is accepted with any number
\* but 0. A rejected message leaves the cursor unchanged, and of two messages
\* with the same key and number at most one is accepted.
C37_AcceptedIffGreaterThanCursor ==
    \A g \in Goroutines :
        Checked(g) =>
            LET m == call.msg[g]
            IN  /\ m.ok <=> (m.seq > 0 /\ \A s \in m.prior : m.seq > s)
                /\ ~m.ok => m.after = m.before
                /\ m.ok => m.seq \notin m.prior
                /\ m.ok => m.after = MapPut(m.before, m.key, m.seq)

\* both goroutines checked a message of the same key and number, the second
\* after the first released the lock: the first was accepted, the second not
C37_Witness ==
    /\ Checked(1)
    /\ Checked(2)
    /\ call.msg[1].key = call.msg[2].key
    /\ call.msg[1].seq = call.msg[2].seq
    /\ call.msg[1].ok # call.msg[2].ok
    /\ call.msg[2].prior = {call.msg[1].seq}

\* ---------------------------------------------------------------------
\* the hedge quantity and the uncovered position

\* C38: every hedge order has a quantity q with 0 < q <= |position -
\* coveredPosition| of its tick, whatever the balances and the book, and after
\* its submission position - coveredPosition has kept its sign (or is zero)
\* and has not grown in absolute value.
C38_NeverOverHedges ==
    [][\A o \in NewOrders :
        LET uncovered == UncoveredAtTick
            after     == Position' - CoveredPosition'
        IN  /\ 0 < o.quantity
            /\ o.quantity <= Abs(uncovered)
            /\ uncovered > 0 => after >= 0 /\ after <= uncovered
            /\ uncovered < 0 => after <= 0 /\ after >= uncovered]_vars

\* a buy hedge cut down to the quote balance left part of a short uncovered
\* position uncovered
C38_Witness ==
    /\ lastHedge.outcome = "submitted"
    /\ lastHedge.side = "BUY"
    /\ lastHedge.uncovered < 0
    /\ 0 < lastHedge.quantity
    /\ lastHedge.quantity < Abs(lastHedge.uncovered)
    /\ Position - CoveredPosition < 0
    /\ Position - CoveredPosition = lastHedge.uncovered + lastHedge.quantity

\* ---------------------------------------------------------------------
\* Validate

\* the configurations Validate is given: quantity, whether quantityScale is
\* present, quantityMultiplier and symbol
ValidateInputs ==
    [Quantity : {0, SmallQuantity, Scale, 2 * Scale},
     QuantityScale : {"nil", "set"},
     QuantityMultiplier : {0 - Scale, 0, Scale, 2 * Scale},
     Symbol : {"", "BTCUSDT"}]

Validate(s) ==
    IF s.Quantity = 0 \/ s.QuantityScale = "nil"
    THEN "quantity or quantityScale can not be empty"
    ELSE IF s.QuantityMultiplier # 0 /\ s.QuantityMultiplier < 0
    THEN "quantityMultiplier can not be a negative number"
    ELSE IF Len(s.Symbol) = 0
    THEN "symbol is required"
    ELSE "nil"

InitValidate ==
    /\ InitIdle
    /\ \E s \in ValidateInputs :
          call = [fn |-> "Validate", s |-> s, err |-> "nil", done |-> FALSE]

ValidateCall ==
    /\ call.fn = "Validate"
    /\ ~call.done
    /\ call' = [call EXCEPT !.err = Validate(call.s), !.done = TRUE]
    /\ UNCHANGED <<strategyVars, stream, streamLog, run, scanner>>

NextValidate == ValidateCall

SpecValidate == InitValidate /\ [][NextValidate]_vars

\* C39: Validate answers "quantity or quantityScale can not be empty" only
\* when the quantity is zero and quantityScale is absent, and accepts every
\* configuration with one of the two set, a quantityMultiplier that is not
\* negative and a symbol that is not empty.
C39_EmptyOnlyWhenBothMissing ==
    (call.fn = "Validate" /\ call.done) =>
        /\ call.err = "quantity or quantityScale can not be empty"
              => call.s.Quantity = 0 /\ call.s.QuantityScale = "nil"
        /\ ((call.s.Quantity # 0 \/ call.s.QuantityScale = "set")
               /\ call.s.QuantityMultiplier >= 0 /\ call.s.Symbol # "")
              => call.err = "nil"

\* ---------------------------------------------------------------------
\* handleOrderbookUpdateMessage

MaxChanges == 2

\* a change of an l2update message: the number of its fields, and the side,
\* price and size it carries
Change(fields, side, price, volume) ==
    [fields |-> fields, side |-> side, price |-> price, volume |-> volume]

Changes ==
    {Change(3, "buy", HighPrice, 2 * Scale), Change(3, "buy", HighPrice, 0),
     Change(3, "buy", HighPrice - Spread, Scale),
     Change(3, "sell", HighPrice + Spread, 2 * Scale), Change(3, "sell", HighPrice + Spread, 0),
     Change(3, "hold", HighPrice, 2 * Scale), Change(2, "buy", HighPrice, 0)}

ChangeLists == UNION {[1..n -> Changes] : n \in 0..MaxChanges}

RECURSIVE bookUpdateChanges(_, _, _)
\* the loop over msg.Changes: a change without three fields and a change of
\* volume zero are passed over, the others are appended to the bids or asks
bookUpdateChanges(changes, i, update) ==
    IF i > Len(changes) THEN update
    ELSE LET c == changes[i]
         IN  IF c.fields # 3 THEN bookUpdateChanges(changes, i + 1, update)
             ELSE IF c.volume = 0 THEN bookUpdateChanges(changes, i + 1, update)
             ELSE IF c.side = "buy"
             THEN bookUpdateChanges(changes, i + 1,
                      [update EXCEPT !.Bids = Append(@, PV(c.price, c.volume))])
             ELSE IF c.side = "sell"
             THEN bookUpdateChanges(changes, i + 1,
                      [update EXCEPT !.Asks = Append(@, PV(c.price, c.volume))])
             ELSE bookUpdateChanges(changes, i + 1, update)

\* the book update is emitted when it has a bid or an ask
handleOrderbookUpdateMessage(changes) ==
    LET update == bookUpdateChanges(changes, 1, [Bids |-> << >>, Asks |-> << >>])
    IN  [emitted |-> Len(update.Bids) > 0 \/ Len(update.Asks) > 0, book |-> update]

InitBookUpdate ==
    /\ InitIdle
    /\ \E changes \in ChangeLists :
          call = [fn |-> "handleOrderbookUpdateMessage", Changes |-> changes,
                  update |-> handleOrderbookUpdateMessage(<< >>), done |-> FALSE]

OrderbookUpdateMessage ==
    /\ call.fn = "handleOrderbookUpdateMessage"
    /\ ~call.done
    /\ call' = [call EXCEPT !.update = handleOrderbookUpdateMessage(call.Changes),
                            !.done = TRUE]
    /\ UNCHANGED <<strategyVars, stream, streamLog, run, scanner>>

NextBookUpdate == OrderbookUpdateMessage

SpecBookUpdate == InitBookUpdate /\ [][NextBookUpdate]_vars

WellFormed(c) == c.fields = 3 /\ c.side \in {"buy", "sell"}

UpdateLevels(pvs) == {pvs[k] : k \in 1..Len(pvs)}

\* C40: every change with three fields and the side buy or sell is in the
\* emitted book update on its side, a change of volume zero included, and an
\* update is emitted whenever the message has such a change.
C40_EveryChangeCarried ==
    (call.fn = "handleOrderbookUpdateMessage" /\ call.done) =>
        \A i \in 1..Len(call.Changes) :
            LET c == call.Changes[i]
            IN  WellFormed(c) =>
                    /\ call.update.emitted
                    /\ c.side = "buy" => PV(c.price, c.volume) \in UpdateLevels(call.update.book.Bids)
                    /\ c.side = "sell" => PV(c.price, c.volume) \in UpdateLevels(call.update.book.Asks)
====
